---- MODULE Spec2Model ----
(***************************************************************************)
(* Model of the HCN ACL Manager of firewall-controller (package hcn):      *)
(* Manager.ApplyACLRules, Manager.RemoveACLRules, Manager.buildPolicies,   *)
(* Manager.GetAppliedPolicies and Manager.ListTrackedPolicies, run against *)
(* a host (the HCNClient capability) whose endpoint list changes and whose *)
(* calls may fail; and of the converter (package converter):               *)
(* NetworkPolicyToACLRules with convertIngressRule, convertEgressRule,     *)
(* getPeerAddress, protocolToNumber and portToString; and of the           *)
(* reconciler (package controller): NetworkPolicyReconciler.Reconcile and  *)
(* reconcileDelete, which fetch a policy, convert it and call the manager. *)
(***************************************************************************)
EXTENDS Integers, Sequences, FiniteSets, TLC

(***************************************************************************)
(* Bounds and input sets                                                   *)
(***************************************************************************)

\* Number of endpoint ids the host may ever list.
MaxEndpoints == 2

\* Number of events of one behaviour: calls of the manager's methods and
\* changes of the host's endpoint list.
MaxEvents == 3

EndpointIDs == 1..MaxEndpoints

\* Callers of the manager (goroutines of the reconciler).
Procs == {1, 2}

\* Policy keys, "namespace/name".
PolicyKeys == {"default/test-policy", "default/policy-2"}

Range(s) == {s[i] : i \in DOMAIN s}

IsInjective(s) == \A i, j \in DOMAIN s : s[i] = s[j] => i = j

\* The lists ListEndpoints may return: distinct endpoint ids, in the host's
\* (fixed) enumeration order.
EndpointLists ==
    {s \in UNION {[1..n -> EndpointIDs] : n \in 0..MaxEndpoints} : \A i, j \in DOMAIN s : i < j => s[i] < s[j]}

(***************************************************************************)
(* ACLRule values (the inputs of ApplyACLRules)                            *)
(***************************************************************************)

ACLRule(name, direction, protocol, localPorts, remotePorts, priority) ==
    [Name |-> name, Action |-> "Allow", Direction |-> direction,
     Protocol |-> protocol, LocalPorts |-> localPorts,
     RemotePorts |-> remotePorts, RemoteAddresses |-> "0.0.0.0/0",
     Priority |-> priority]

RuleAllowHTTP == ACLRule("allow-http", "In", "6", "80", "", 100)

RuleAllowHTTPS == ACLRule("allow-https", "In", "6", "443", "", 101)

\* The rule lists callers pass to ApplyACLRules.
RuleInputs == {<<RuleAllowHTTP>>, <<RuleAllowHTTP, RuleAllowHTTPS>>}

(***************************************************************************)
(* buildPolicies: one hcn.EndpointPolicy per rule, the AclPolicySetting    *)
(* marshalled to JSON.  The JSON object is kept as the record of its       *)
(* fields: the rule's Name is not part of it, LocalAddresses is "".        *)
(***************************************************************************)

AclPolicySetting(rule) ==
    [Protocols |-> rule.Protocol, Action |-> rule.Action,
     Direction |-> rule.Direction, LocalAddresses |-> "",
     RemoteAddresses |-> rule.RemoteAddresses,
     LocalPorts |-> rule.LocalPorts, RemotePorts |-> rule.RemotePorts,
     Priority |-> rule.Priority]

buildPolicies(rules) ==
    [i \in 1..Len(rules) |-> [Type |-> "ACL", Settings |-> AclPolicySetting(rules[i])]]

RuleSet(endpointID, pols) == [EndpointID |-> endpointID, Policies |-> pols]

(***************************************************************************)
(* State                                                                   *)
(***************************************************************************)

VARIABLES
    appliedPolicies,  \* Manager.appliedPolicies: policy key -> list of RuleSet
    mu,               \* Manager.mu: 0 when free, else the caller holding it
    hostEndpoints,    \* the host's current endpoint list
    hostPolicies,     \* per endpoint id, the set of filter objects installed
    pc,               \* per caller, its position in the call
    op,               \* per caller, the method of its current or last call
    policyKey,        \* per caller, the call's policyKey argument
    endpoints,        \* per caller, the list ListEndpoints returned
    policies,         \* per caller, the result of buildPolicies
    idx,              \* per caller, the loop position (1-based)
    ruleSets,         \* per caller, the local ruleSets slice
    applyErrors,      \* per caller, endpoint ids of applyErrors
    removeErrors,     \* per caller, endpoint ids of removeErrors
    hostCalls,        \* per caller, the host calls of the call, in order
    ret,              \* per caller, the returned error ("nil" for none)
    pre,              \* per caller, appliedPolicies when the call started
    got,              \* per caller, the last read accessor result since the call
    events,           \* calls and host changes so far
    np,               \* the NetworkPolicy given to the converter
    out,              \* the converter's loop position, output and priority counter
    recon,            \* the reconciler's request, position, manager calls and result
    second            \* a second Manager on the same host: its appliedPolicies and mu

managerVars == <<appliedPolicies, mu>>
hostVars == <<hostEndpoints, hostPolicies>>
localVars == <<pc, op, policyKey, endpoints, policies, idx, ruleSets,
               applyErrors, removeErrors, hostCalls, ret, pre, got>>
converterVars == <<np, out>>
vars == <<appliedPolicies, mu, hostEndpoints, hostPolicies, pc, op, policyKey,
          endpoints, policies, idx, ruleSets, applyErrors, removeErrors,
          hostCalls, ret, pre, got, events, np, out, recon, second>>

NoResult == [fn |-> "none"]

\* make(map[string][]RuleSet)
EmptyMap == [k \in {} |-> <<>>]

HostCall(fn, id, ok) == [fn |-> fn, id |-> id, ok |-> ok]

\* A NetworkPolicy object: metadata and the two rule lists of its spec.
NetworkPolicy(namespace, name, ingress, egress) ==
    [Namespace |-> namespace, Name |-> name, Ingress |-> ingress, Egress |-> egress]

\* The policy of a run in which the converter is not called.
NoPolicy == NetworkPolicy("", "", <<>>, <<>>)


\* An ApplyEndpointPolicy / RemoveEndpointPolicy request: the endpoint and the
\* hcn.PolicyEndpointRequest{Policies: pols} it carries.
HostRequest(fn, id, pols, ok) == [fn |-> fn, id |-> id, ok |-> ok, policies |-> pols]

\* NewManager, called twice: each Manager has an empty tracking map of its
\* own, the lock free; no caller has called yet.
InitManager ==
    /\ appliedPolicies = EmptyMap
    /\ second = [appliedPolicies |-> EmptyMap, mu |-> 0]
    /\ mu = 0
    /\ hostEndpoints \in EndpointLists
    /\ hostPolicies = [e \in EndpointIDs |-> {}]
    /\ pc = [p \in Procs |-> "idle"]
    /\ op = [p \in Procs |-> "none"]
    /\ policyKey = [p \in Procs |-> ""]
    /\ endpoints = [p \in Procs |-> <<>>]
    /\ policies = [p \in Procs |-> <<>>]
    /\ idx = [p \in Procs |-> 1]
    /\ ruleSets = [p \in Procs |-> <<>>]
    /\ applyErrors = [p \in Procs |-> <<>>]
    /\ removeErrors = [p \in Procs |-> <<>>]
    /\ hostCalls = [p \in Procs |-> <<>>]
    /\ ret = [p \in Procs |-> "none"]
    /\ pre = [p \in Procs |-> EmptyMap]
    /\ got = [p \in Procs |-> NoResult]
    /\ events = 0

\* No conversion is under way.
NotConverted == [pc |-> "idle"]

\* Reconcile has not been called.
NotReconciling ==
    [pc |-> "idle", req |-> [Namespace |-> "", Name |-> ""], get |-> "none",
     calls |-> <<>>, start |-> 0, result |-> [RequeueAfter |-> 0, err |-> "none"]]

Init == InitManager /\ np = NoPolicy /\ out = NotConverted /\ recon = NotReconciling

(***************************************************************************)
(* The tracking map and the return values                                  *)
(***************************************************************************)

\* Faulty variant of StoreTracking: the new rule sets are appended to the
\* entry the key already has.
StoreTrackingMerge(m, k, rs) ==
    [x \in (DOMAIN m) \cup {k} |->
        IF x = k THEN (IF k \in DOMAIN m THEN m[k] \o rs ELSE rs) ELSE m[x]]

\* Faulty variant of StoreTracking: nothing is written when no endpoint
\* succeeded.
StoreTrackingNonEmpty(m, k, rs) ==
    IF rs = <<>> THEN m
    ELSE [x \in (DOMAIN m) \cup {k} |-> IF x = k THEN rs ELSE m[x]]

\* Faulty variant of StoreTracking: check-then-set, an entry that is already
\* there is kept.
StoreTrackingKeepFirst(m, k, rs) ==
    [x \in (DOMAIN m) \cup {k} |-> IF x \in DOMAIN m THEN m[x] ELSE rs]

\* Faulty variant of StoreTracking: the map is replaced by one holding only
\* the written entry.
StoreTrackingAlone(m, k, rs) == [x \in {k} |-> rs]

\* m.appliedPolicies[policyKey] = ruleSets
StoreTracking(m, k, rs) ==
    [x \in (DOMAIN m) \cup {k} |-> IF x = k THEN rs ELSE m[x]]

\* Faulty variant of DeleteTracking: the entry is left in the map.
DeleteTrackingSkipped(m, k) == m

\* delete(m.appliedPolicies, policyKey)
DeleteTracking(m, k) == [x \in (DOMAIN m) \ {k} |-> m[x]]

\* Faulty variant of RecordApplied: the `continue` is missing, a failed
\* endpoint is recorded as well.
RecordAppliedAlways(rs, e, pols, ok) == Append(rs, RuleSet(e, pols))

\* The local ruleSets slice after one ApplyEndpointPolicy call on endpoint e.
RecordApplied(rs, e, pols, ok) ==
    IF ok THEN Append(rs, RuleSet(e, pols)) ELSE rs

\* Faulty variant of NextEndpoint: a failed endpoint is tried again.
NextEndpointRetry(i, ok) == IF ok THEN i + 1 ELSE i

\* Faulty variant of NextEndpoint: `break` instead of `continue`.
NextEndpointBreak(i, ok) == IF ok THEN i + 1 ELSE MaxEndpoints + 1

\* The loop position after one endpoint: `continue` on failure, fall through
\* to the next iteration on success.
NextEndpoint(i, ok) == i + 1

\* Faulty variant of ApplyResult: an error only when some, but not all,
\* endpoints failed.
ApplyResultPartialOnly(errs, eps) ==
    IF Len(errs) > 0 /\ Len(errs) < Len(eps) THEN "failed to apply policies" ELSE "nil"

\* if len(applyErrors) > 0 { return fmt.Errorf(...) }; return nil
ApplyResult(errs, eps) ==
    IF Len(errs) > 0 THEN "failed to apply policies" ELSE "nil"

\* Faulty variant of RemoveResult: an error only when every rule set failed.
RemoveResultAllFailed(errs, rs) ==
    IF Len(errs) > 0 /\ Len(errs) = Len(rs) THEN "failed to remove policies" ELSE "nil"

\* if len(removeErrors) > 0 { return fmt.Errorf(...) }; return nil
RemoveResult(errs, rs) ==
    IF Len(errs) > 0 THEN "failed to remove policies" ELSE "nil"

\* What a call on a Manager whose index is m starts from: it may start when
\* the caller is in no call.
BeginCallOn(p, method, k, m) ==
    /\ pc[p] \in {"idle", "done"}
    /\ events < MaxEvents
    /\ events' = events + 1
    /\ op' = [op EXCEPT ![p] = method]
    /\ policyKey' = [policyKey EXCEPT ![p] = k]
    /\ pre' = [pre EXCEPT ![p] = m]
    /\ got' = [got EXCEPT ![p] = NoResult]
    /\ idx' = [idx EXCEPT ![p] = 1]
    /\ ruleSets' = [ruleSets EXCEPT ![p] = <<>>]
    /\ applyErrors' = [applyErrors EXCEPT ![p] = <<>>]
    /\ removeErrors' = [removeErrors EXCEPT ![p] = <<>>]

\* A call on the first Manager.
BeginCall(p, method, k) == BeginCallOn(p, method, k, appliedPolicies)

(***************************************************************************)
(* The entry of a call, for given arguments                                *)
(***************************************************************************)

\* ListEndpoints fails: return the wrapped error.
ApplyListErrorOn(p, k, rules, m) ==
    /\ BeginCallOn(p, "ApplyACLRules", k, m)
    /\ hostCalls' = [hostCalls EXCEPT ![p] = <<HostCall("ListEndpoints", 0, FALSE)>>]
    /\ endpoints' = [endpoints EXCEPT ![p] = <<>>]
    /\ policies' = [policies EXCEPT ![p] = <<>>]
    /\ ret' = [ret EXCEPT ![p] = "failed to list HCN endpoints"]
    /\ pc' = [pc EXCEPT ![p] = "done"]
    /\ UNCHANGED <<second, recon, converterVars, managerVars, hostVars>>

\* len(endpoints) == 0: log and return nil.
ApplyNoEndpointsOn(p, k, rules, m) ==
    /\ BeginCallOn(p, "ApplyACLRules", k, m)
    /\ hostEndpoints = <<>>
    /\ hostCalls' = [hostCalls EXCEPT ![p] = <<HostCall("ListEndpoints", 0, TRUE)>>]
    /\ endpoints' = [endpoints EXCEPT ![p] = <<>>]
    /\ policies' = [policies EXCEPT ![p] = <<>>]
    /\ ret' = [ret EXCEPT ![p] = "nil"]
    /\ pc' = [pc EXCEPT ![p] = "done"]
    /\ UNCHANGED <<second, recon, converterVars, managerVars, hostVars>>

\* ListEndpoints returns at least one endpoint: build the policies once and
\* enter the endpoint loop.
ApplyBuildOn(p, k, rules, m) ==
    /\ BeginCallOn(p, "ApplyACLRules", k, m)
    /\ hostEndpoints # <<>>
    /\ hostCalls' = [hostCalls EXCEPT ![p] = <<HostCall("ListEndpoints", 0, TRUE)>>]
    /\ endpoints' = [endpoints EXCEPT ![p] = hostEndpoints]
    /\ policies' = [policies EXCEPT ![p] = buildPolicies(rules)]
    /\ ret' = [ret EXCEPT ![p] = "none"]
    /\ pc' = [pc EXCEPT ![p] = "applyLoop"]
    /\ UNCHANGED <<second, recon, converterVars, managerVars, hostVars>>

\* buildPolicies returns an error (json.Marshal failed for some rule):
\* policies is nil and the wrapped error is returned before the loop.
ApplyBuildErrorOn(p, k, rules, m) ==
    /\ BeginCallOn(p, "ApplyACLRules", k, m)
    /\ hostEndpoints # <<>>
    /\ hostCalls' = [hostCalls EXCEPT ![p] = <<HostCall("ListEndpoints", 0, TRUE)>>]
    /\ endpoints' = [endpoints EXCEPT ![p] = hostEndpoints]
    /\ policies' = [policies EXCEPT ![p] = <<>>]
    /\ ret' = [ret EXCEPT ![p] = "failed to build HCN policies"]
    /\ pc' = [pc EXCEPT ![p] = "done"]
    /\ UNCHANGED <<second, recon, converterVars, managerVars, hostVars>>

\* The entries of ApplyACLRules on the first Manager.
ApplyListErrorWith(p, k, rules) == ApplyListErrorOn(p, k, rules, appliedPolicies)

ApplyNoEndpointsWith(p, k, rules) == ApplyNoEndpointsOn(p, k, rules, appliedPolicies)

ApplyBuildWith(p, k, rules) == ApplyBuildOn(p, k, rules, appliedPolicies)

ApplyBuildErrorWith(p, k, rules) == ApplyBuildErrorOn(p, k, rules, appliedPolicies)

\* Entry and m.mu.Lock().
RemoveLockWith(p, k) ==
    /\ BeginCall(p, "RemoveACLRules", k)
    /\ mu = 0
    /\ mu' = p
    /\ hostCalls' = [hostCalls EXCEPT ![p] = <<>>]
    /\ endpoints' = [endpoints EXCEPT ![p] = <<>>]
    /\ policies' = [policies EXCEPT ![p] = <<>>]
    /\ ret' = [ret EXCEPT ![p] = "none"]
    /\ pc' = [pc EXCEPT ![p] = "removeLookup"]
    /\ UNCHANGED <<second, recon, converterVars, appliedPolicies, hostVars>>

(***************************************************************************)
(* Manager.ApplyACLRules                                                   *)
(***************************************************************************)

\* Faulty variant of ApplyListError: the error is dropped and the call goes
\* on as if the list were empty, storing an empty entry.
ApplyListErrorAsEmpty(p) ==
    \E k \in PolicyKeys, rules \in RuleInputs :
        /\ BeginCall(p, "ApplyACLRules", k)
        /\ mu = 0
        /\ hostCalls' = [hostCalls EXCEPT ![p] = <<HostCall("ListEndpoints", 0, FALSE)>>]
        /\ endpoints' = [endpoints EXCEPT ![p] = <<>>]
        /\ policies' = [policies EXCEPT ![p] = <<>>]
        /\ appliedPolicies' = [x \in (DOMAIN appliedPolicies) \cup {k} |->
                                  IF x = k THEN <<>> ELSE appliedPolicies[x]]
        /\ ret' = [ret EXCEPT ![p] = "failed to list HCN endpoints"]
        /\ pc' = [pc EXCEPT ![p] = "done"]
        /\ UNCHANGED <<second, recon, converterVars, mu, hostVars>>

\* ApplyACLRules with any of the callers' arguments: ApplyListErrorWith.
ApplyListError(p) ==
    \E k \in PolicyKeys, rules \in RuleInputs : ApplyListErrorWith(p, k, rules)

\* Faulty variant of ApplyNoEndpoints: without the early return the empty
\* loop runs and an empty entry is stored for the key.
ApplyNoEndpointsTracksEmpty(p) ==
    \E k \in PolicyKeys, rules \in RuleInputs :
        /\ BeginCall(p, "ApplyACLRules", k)
        /\ hostEndpoints = <<>>
        /\ mu = 0
        /\ hostCalls' = [hostCalls EXCEPT ![p] = <<HostCall("ListEndpoints", 0, TRUE)>>]
        /\ endpoints' = [endpoints EXCEPT ![p] = <<>>]
        /\ policies' = [policies EXCEPT ![p] = <<>>]
        /\ appliedPolicies' = [x \in (DOMAIN appliedPolicies) \cup {k} |->
                                  IF x = k THEN <<>> ELSE appliedPolicies[x]]
        /\ ret' = [ret EXCEPT ![p] = "nil"]
        /\ pc' = [pc EXCEPT ![p] = "done"]
        /\ UNCHANGED <<second, recon, converterVars, mu, hostVars>>

\* Faulty variant of ApplyNoEndpoints: the key's entry is dropped when the
\* host lists nothing.
ApplyNoEndpointsClears(p) ==
    \E k \in PolicyKeys, rules \in RuleInputs :
        /\ BeginCall(p, "ApplyACLRules", k)
        /\ hostEndpoints = <<>>
        /\ mu = 0
        /\ hostCalls' = [hostCalls EXCEPT ![p] = <<HostCall("ListEndpoints", 0, TRUE)>>]
        /\ endpoints' = [endpoints EXCEPT ![p] = <<>>]
        /\ policies' = [policies EXCEPT ![p] = <<>>]
        /\ appliedPolicies' = [x \in (DOMAIN appliedPolicies) \ {k} |-> appliedPolicies[x]]
        /\ ret' = [ret EXCEPT ![p] = "nil"]
        /\ pc' = [pc EXCEPT ![p] = "done"]
        /\ UNCHANGED <<second, recon, converterVars, mu, hostVars>>

\* ApplyACLRules with any of the callers' arguments: ApplyNoEndpointsWith.
ApplyNoEndpoints(p) ==
    \E k \in PolicyKeys, rules \in RuleInputs : ApplyNoEndpointsWith(p, k, rules)

\* ApplyACLRules with any of the callers' arguments: ApplyBuildWith.
ApplyBuild(p) ==
    \E k \in PolicyKeys, rules \in RuleInputs : ApplyBuildWith(p, k, rules)

\* Faulty variant of ApplyBuildError: the error is returned only after an
\* empty entry has been written for the key.
ApplyBuildErrorStoresEmpty(p) ==
    \E k \in PolicyKeys, rules \in RuleInputs :
        /\ BeginCall(p, "ApplyACLRules", k)
        /\ hostEndpoints # <<>>
        /\ mu = 0
        /\ hostCalls' = [hostCalls EXCEPT ![p] = <<HostCall("ListEndpoints", 0, TRUE)>>]
        /\ endpoints' = [endpoints EXCEPT ![p] = hostEndpoints]
        /\ policies' = [policies EXCEPT ![p] = <<>>]
        /\ appliedPolicies' = StoreTracking(appliedPolicies, k, <<>>)
        /\ ret' = [ret EXCEPT ![p] = "failed to build HCN policies"]
        /\ pc' = [pc EXCEPT ![p] = "done"]
        /\ UNCHANGED <<second, recon, converterVars, mu, hostVars>>

\* ApplyACLRules with any of the callers' arguments: ApplyBuildErrorWith.
ApplyBuildError(p) ==
    \E k \in PolicyKeys, rules \in RuleInputs : ApplyBuildErrorWith(p, k, rules)

\* A loop iteration that diffs against the index: an endpoint whose tracked
\* rule set already holds these policies gets no request and is recorded.
ApplyEndpointDiffing(p) ==
    /\ pc[p] = "applyLoop"
    /\ idx[p] <= Len(endpoints[p])
    /\ LET e == endpoints[p][idx[p]]
           known == /\ policyKey[p] \in DOMAIN appliedPolicies
                    /\ RuleSet(e, policies[p]) \in Range(appliedPolicies[policyKey[p]])
       IN
       \E ok \in (IF e \in Range(hostEndpoints) THEN BOOLEAN ELSE {FALSE}) :
           /\ known => ok
           /\ hostCalls' = [hostCalls EXCEPT ![p] =
                 IF known THEN @
                 ELSE Append(@, HostRequest("ApplyEndpointPolicy", e, policies[p], ok))]
           /\ hostPolicies' = IF ok
                              THEN [hostPolicies EXCEPT ![e] = @ \cup Range(policies[p])]
                              ELSE hostPolicies
           /\ ruleSets' = [ruleSets EXCEPT ![p] = RecordApplied(@, e, policies[p], ok)]
           /\ applyErrors' = [applyErrors EXCEPT ![p] = IF ok THEN @ ELSE Append(@, e)]
           /\ idx' = [idx EXCEPT ![p] = NextEndpoint(@, ok)]
    /\ UNCHANGED <<second, recon, converterVars, managerVars, hostEndpoints, pc, op, policyKey, endpoints,
                   policies, removeErrors, ret, pre, got, events>>

\* One iteration of `for _, endpoint := range endpoints`: one
\* ApplyEndpointPolicy request carrying all the policies.
ApplyEndpoint(p) ==
    /\ pc[p] = "applyLoop"
    /\ idx[p] <= Len(endpoints[p])
    /\ LET e == endpoints[p][idx[p]] IN
       \E ok \in (IF e \in Range(hostEndpoints) THEN BOOLEAN ELSE {FALSE}) :
           /\ hostCalls' = [hostCalls EXCEPT ![p] = Append(@, HostRequest("ApplyEndpointPolicy", e, policies[p], ok))]
           /\ hostPolicies' = IF ok
                              THEN [hostPolicies EXCEPT ![e] = @ \cup Range(policies[p])]
                              ELSE hostPolicies
           /\ ruleSets' = [ruleSets EXCEPT ![p] = RecordApplied(@, e, policies[p], ok)]
           /\ applyErrors' = [applyErrors EXCEPT ![p] = IF ok THEN @ ELSE Append(@, e)]
           /\ idx' = [idx EXCEPT ![p] = NextEndpoint(@, ok)]
    /\ UNCHANGED <<second, recon, converterVars, managerVars, hostEndpoints, pc, op, policyKey, endpoints,
                   policies, removeErrors, ret, pre, got, events>>

\* m.mu.Lock() after the loop.
ApplyLock(p) ==
    /\ pc[p] = "applyLoop"
    /\ idx[p] > Len(endpoints[p])
    /\ mu = 0
    /\ mu' = p
    /\ pc' = [pc EXCEPT ![p] = "applyStore"]
    /\ UNCHANGED <<second, recon, converterVars, appliedPolicies, hostVars, op, policyKey, endpoints, policies,
                   idx, ruleSets, applyErrors, removeErrors, hostCalls, ret,
                   pre, got, events>>

\* The map write, m.mu.Unlock(), and the return value.
ApplyStore(p) ==
    /\ pc[p] = "applyStore"
    /\ mu = p
    /\ appliedPolicies' = StoreTracking(appliedPolicies, policyKey[p], ruleSets[p])
    /\ mu' = 0
    /\ ret' = [ret EXCEPT ![p] = ApplyResult(applyErrors[p], endpoints[p])]
    /\ pc' = [pc EXCEPT ![p] = "done"]
    /\ UNCHANGED <<second, recon, converterVars, hostVars, op, policyKey, endpoints, policies, idx, ruleSets,
                   applyErrors, removeErrors, hostCalls, pre, got, events>>

(***************************************************************************)
(* Manager.RemoveACLRules                                                  *)
(***************************************************************************)

\* RemoveACLRules with any of the callers' keys: RemoveLockWith.
RemoveLock(p) ==
    \E k \in PolicyKeys : RemoveLockWith(p, k)

\* Faulty variant of RemoveNotTracked: an untracked key is reported as an
\* error.
RemoveNotTrackedFails(p) ==
    /\ pc[p] = "removeLookup"
    /\ mu = p
    /\ policyKey[p] \notin DOMAIN appliedPolicies
    /\ mu' = 0
    /\ ret' = [ret EXCEPT ![p] = "no tracked policies"]
    /\ pc' = [pc EXCEPT ![p] = "done"]
    /\ UNCHANGED <<second, recon, converterVars, appliedPolicies, hostVars, op, policyKey, endpoints, policies,
                   idx, ruleSets, applyErrors, removeErrors, hostCalls, pre,
                   got, events>>

\* A return on the not-found path that forgets m.mu.Unlock().
RemoveNotTrackedKeepsLock(p) ==
    /\ pc[p] = "removeLookup"
    /\ mu = p
    /\ policyKey[p] \notin DOMAIN appliedPolicies
    /\ ret' = [ret EXCEPT ![p] = "nil"]
    /\ pc' = [pc EXCEPT ![p] = "done"]
    /\ UNCHANGED <<second, recon, converterVars, managerVars, hostVars, op, policyKey, endpoints,
                   policies, idx, ruleSets, applyErrors, removeErrors, hostCalls, pre,
                   got, events>>

\* if !exists { m.mu.Unlock(); return nil }
RemoveNotTracked(p) ==
    /\ pc[p] = "removeLookup"
    /\ mu = p
    /\ policyKey[p] \notin DOMAIN appliedPolicies
    /\ mu' = 0
    /\ ret' = [ret EXCEPT ![p] = "nil"]
    /\ pc' = [pc EXCEPT ![p] = "done"]
    /\ UNCHANGED <<second, recon, converterVars, appliedPolicies, hostVars, op, policyKey, endpoints, policies,
                   idx, ruleSets, applyErrors, removeErrors, hostCalls, pre,
                   got, events>>

\* A lookup that reads the rule sets and unlocks, leaving the entry in the
\* map.
RemoveTakeLeavesEntry(p) ==
    /\ pc[p] = "removeLookup"
    /\ mu = p
    /\ policyKey[p] \in DOMAIN appliedPolicies
    /\ ruleSets' = [ruleSets EXCEPT ![p] = appliedPolicies[policyKey[p]]]
    /\ mu' = 0
    /\ pc' = [pc EXCEPT ![p] = "removeLoop"]
    /\ UNCHANGED <<second, recon, converterVars, appliedPolicies, hostVars, op, policyKey,
                   endpoints, policies, idx, applyErrors, removeErrors, hostCalls, ret,
                   pre, got, events>>

\* The key is tracked: take its rule sets, delete the entry, unlock.
RemoveTake(p) ==
    /\ pc[p] = "removeLookup"
    /\ mu = p
    /\ policyKey[p] \in DOMAIN appliedPolicies
    /\ ruleSets' = [ruleSets EXCEPT ![p] = appliedPolicies[policyKey[p]]]
    /\ appliedPolicies' = DeleteTracking(appliedPolicies, policyKey[p])
    /\ mu' = 0
    /\ pc' = [pc EXCEPT ![p] = "removeLoop"]
    /\ UNCHANGED <<second, recon, converterVars, hostVars, op, policyKey, endpoints, policies, idx,
                   applyErrors, removeErrors, hostCalls, ret, pre, got, events>>

\* Faulty variant of NextRuleSet: the loop ends at the first failure.
NextRuleSetBreak(i, ok) == IF ok THEN i + 1 ELSE MaxEndpoints + 1

\* The loop position after one rule set: `continue` on either failure, the
\* next iteration on success.
NextRuleSet(i, ok) == i + 1

\* Faulty variant of RemovalPolicies: the request is rebuilt from the first
\* stored policy only instead of replaying the stored list.
RemovalPoliciesTruncated(ruleSet) ==
    SubSeq(ruleSet.Policies, 1, IF Len(ruleSet.Policies) > 0 THEN 1 ELSE 0)

\* request := hcn.PolicyEndpointRequest{Policies: ruleSet.Policies}
RemovalPolicies(ruleSet) == ruleSet.Policies

\* The first host call of one iteration of `for _, ruleSet := range
\* ruleSets`: GetEndpointByID.  On an error the endpoint is added to
\* removeErrors and the loop continues; otherwise the request follows.
RemoveLookupEndpoint(p) ==
    /\ pc[p] = "removeLoop"
    /\ idx[p] <= Len(ruleSets[p])
    /\ LET e == ruleSets[p][idx[p]].EndpointID
       IN  \/ /\ hostCalls' = [hostCalls EXCEPT ![p] =
                                  Append(@, HostCall("GetEndpointByID", e, FALSE))]
              /\ removeErrors' = [removeErrors EXCEPT ![p] = Append(@, e)]
              /\ idx' = [idx EXCEPT ![p] = NextRuleSet(@, FALSE)]
              /\ UNCHANGED pc
           \/ /\ e \in Range(hostEndpoints)
              /\ hostCalls' = [hostCalls EXCEPT ![p] =
                                  Append(@, HostCall("GetEndpointByID", e, TRUE))]
              /\ pc' = [pc EXCEPT ![p] = "removeRequest"]
              /\ UNCHANGED <<removeErrors, idx>>
    /\ UNCHANGED <<second, recon, converterVars, managerVars, hostVars, op, policyKey, endpoints,
                   policies, ruleSets, applyErrors, ret, pre, got, events>>

\* The second host call of the iteration: one RemoveEndpointPolicy request
\* with the stored policies, for the endpoint the lookup returned.  The
\* host may have changed since the lookup.
RemoveRequest(p) ==
    /\ pc[p] = "removeRequest"
    /\ LET ruleSet == ruleSets[p][idx[p]]
           e == ruleSet.EndpointID
       IN  \E ok \in (IF e \in Range(hostEndpoints) THEN BOOLEAN ELSE {FALSE}) :
              /\ hostCalls' = [hostCalls EXCEPT ![p] =
                    Append(@, HostRequest("RemoveEndpointPolicy", e,
                                          RemovalPolicies(ruleSet), ok))]
              /\ removeErrors' = [removeErrors EXCEPT ![p] =
                                     IF ok THEN @ ELSE Append(@, e)]
              /\ hostPolicies' = IF ok
                    THEN [hostPolicies EXCEPT ![e] = @ \ Range(RemovalPolicies(ruleSet))]
                    ELSE hostPolicies
              /\ idx' = [idx EXCEPT ![p] = NextRuleSet(@, ok)]
    /\ pc' = [pc EXCEPT ![p] = "removeLoop"]
    /\ UNCHANGED <<second, recon, converterVars, managerVars, hostEndpoints, op, policyKey, endpoints,
                   policies, ruleSets, applyErrors, ret, pre, got, events>>

\* One host call of the removal loop.
RemoveEndpoint(p) == RemoveLookupEndpoint(p) \/ RemoveRequest(p)

\* After the loop: the aggregate error, or nil.
RemoveReturn(p) ==
    /\ pc[p] = "removeLoop"
    /\ idx[p] > Len(ruleSets[p])
    /\ ret' = [ret EXCEPT ![p] = RemoveResult(removeErrors[p], ruleSets[p])]
    /\ pc' = [pc EXCEPT ![p] = "done"]
    /\ UNCHANGED <<second, recon, converterVars, managerVars, hostVars, op, policyKey, endpoints, policies,
                   idx, ruleSets, applyErrors, removeErrors, hostCalls, pre,
                   got, events>>

(***************************************************************************)
(* Read accessors (RLock; read; RUnlock)                                   *)
(***************************************************************************)

\* Faulty variant of LookupTracking: found is derived from the length of the
\* rule sets instead of the map's second result.
LookupTrackingNonEmpty(m, k) ==
    [fn |-> "GetAppliedPolicies", key |-> k,
     ruleSets |-> IF k \in DOMAIN m THEN m[k] ELSE <<>>,
     exists |-> k \in DOMAIN m /\ m[k] # <<>>]

\* ruleSets, exists := m.appliedPolicies[policyKey]
LookupTracking(m, k) ==
    [fn |-> "GetAppliedPolicies", key |-> k,
     ruleSets |-> IF k \in DOMAIN m THEN m[k] ELSE <<>>,
     exists |-> k \in DOMAIN m]

GetAppliedPolicies(p) ==
    /\ pc[p] \in {"idle", "done"}
    /\ mu = 0
    /\ events < MaxEvents
    /\ events' = events + 1
    /\ \E k \in PolicyKeys : got' = [got EXCEPT ![p] = LookupTracking(appliedPolicies, k)]
    /\ UNCHANGED <<second, recon, converterVars, managerVars, hostVars, pc, op, policyKey, endpoints, policies,
                   idx, ruleSets, applyErrors, removeErrors, hostCalls, ret,
                   pre>>

\* Faulty variant of TrackedKeyLists: the slice is made with length len(m)
\* instead of capacity len(m), so the keys follow len(m) empty strings.
TrackedKeyListsPadded(m) ==
    {[i \in 1..Cardinality(DOMAIN m) |-> ""] \o keys :
        keys \in {ks \in [1..Cardinality(DOMAIN m) -> DOMAIN m] : IsInjective(ks)}}

\* keys := make([]string, 0, len(m)); for k := range m { keys = append(keys, k) }
\* The slices the loop can build: every key once, in any iteration order.
TrackedKeyLists(m) ==
    {keys \in [1..Cardinality(DOMAIN m) -> DOMAIN m] : IsInjective(keys)}

\* The keys of the map, appended once each in the map's iteration order.
ListTrackedPolicies(p) ==
    /\ pc[p] \in {"idle", "done"}
    /\ mu = 0
    /\ events < MaxEvents
    /\ events' = events + 1
    /\ \E keys \in TrackedKeyLists(appliedPolicies) :
          got' = [got EXCEPT ![p] = [fn |-> "ListTrackedPolicies", keys |-> keys]]
    /\ UNCHANGED <<second, recon, converterVars, managerVars, hostVars, pc, op, policyKey, endpoints, policies,
                   idx, ruleSets, applyErrors, removeErrors, hostCalls, ret,
                   pre>>

(***************************************************************************)
(* The host: endpoints come and go; an endpoint that goes takes its        *)
(* installed filter objects with it.                                       *)
(***************************************************************************)

HostChange ==
    /\ \E eps \in EndpointLists :
          /\ eps # hostEndpoints
          /\ hostEndpoints' = eps
          /\ hostPolicies' = [e \in EndpointIDs |->
                                IF e \in Range(eps) THEN hostPolicies[e] ELSE {}]
    /\ events < MaxEvents
    /\ events' = events + 1
    /\ UNCHANGED <<second, recon, converterVars, managerVars, localVars>>

(***************************************************************************)
(* Specifications                                                          *)
(***************************************************************************)

Call(p) ==
    \/ ApplyListError(p)
    \/ ApplyNoEndpoints(p)
    \/ ApplyBuildError(p)
    \/ ApplyBuild(p)
    \/ ApplyEndpoint(p)
    \/ ApplyLock(p)
    \/ ApplyStore(p)
    \/ RemoveLock(p)
    \/ RemoveNotTracked(p)
    \/ RemoveTake(p)
    \/ RemoveEndpoint(p)
    \/ RemoveReturn(p)
    \/ GetAppliedPolicies(p)
    \/ ListTrackedPolicies(p)

\* One caller: the calls run one after another.
Next == HostChange \/ Call(1)

Spec == Init /\ [][Next]_vars

(***************************************************************************)
(* Observations of a call, read from the host-call log                     *)
(***************************************************************************)

\* The caller's last call was ApplyACLRules and it has returned.
ApplyReturned(p) == pc[p] = "done" /\ op[p] = "ApplyACLRules"

\* The caller's last call was RemoveACLRules and it has returned.
RemoveReturned(p) == pc[p] = "done" /\ op[p] = "RemoveACLRules"

\* ListEndpoints answered without error in the caller's apply call.
ListSucceeded(p) ==
    /\ hostCalls[p] # <<>>
    /\ hostCalls[p][1].fn = "ListEndpoints"
    /\ hostCalls[p][1].ok

\* The returned call listed N >= 1 endpoints (it ran the endpoint loop).
ApplyRanLoop(p) ==
    /\ ApplyReturned(p)
    /\ ListSucceeded(p)
    /\ Len(endpoints[p]) >= 1
    /\ ret[p] # "failed to build HCN policies"

\* The returned call listed zero endpoints.
ApplyFoundNoEndpoints(p) == ApplyReturned(p) /\ ListSucceeded(p) /\ endpoints[p] = <<>>

\* The install requests of the call, in the order they were issued.
Installs(p) ==
    LET IsInstall(c) == c.fn = "ApplyEndpointPolicy"
    IN  SelectSeq(hostCalls[p], IsInstall)

InstallIDs(p) == [i \in 1..Len(Installs(p)) |-> Installs(p)[i].id]

SucceededIDs(p) == {c.id : c \in {d \in Range(Installs(p)) : d.ok}}

FailedIDs(p) == {c.id : c \in {d \in Range(Installs(p)) : ~d.ok}}

\* The rule sets of the installs that succeeded, in request order.
SuccessList(p) ==
    LET Ok(c) == c.ok
        oks == SelectSeq(Installs(p), Ok)
    IN  [i \in 1..Len(oks) |-> RuleSet(oks[i].id, policies[p])]

EntryIDs(entry) == {entry[i].EndpointID : i \in DOMAIN entry}

\* The caller read policyKey k with GetAppliedPolicies after its last call.
ReadBack(p, k) == got[p].fn = "GetAppliedPolicies" /\ got[p].key = k

(***************************************************************************)
(* Claims                                                                  *)
(***************************************************************************)

\* C1: after ApplyACLRules on N >= 1 listed endpoints of which M installs
\* failed, the key's tracking entry holds exactly N-M rule sets: one for each
\* endpoint whose install succeeded, none for an endpoint whose install failed.
C1_TrackedSuccessesOnly ==
    \A p \in Procs :
        ApplyRanLoop(p) =>
            /\ policyKey[p] \in DOMAIN appliedPolicies
            /\ LET entry == appliedPolicies[policyKey[p]]
                   N == Len(endpoints[p])
                   M == Cardinality(FailedIDs(p))
               IN  /\ Len(entry) = N - M
                   /\ EntryIDs(entry) = SucceededIDs(p)
                   /\ EntryIDs(entry) \cap FailedIDs(p) = {}
                   /\ IsInjective(entry)

\* C1 witness: two endpoints listed, one install failed, one rule set tracked.
C1_Witness ==
    \E p \in Procs :
        /\ ApplyRanLoop(p)
        /\ Len(endpoints[p]) = 2
        /\ Cardinality(FailedIDs(p)) = 1
        /\ Len(appliedPolicies[policyKey[p]]) = 1

\* C2: ApplyACLRules on N >= 1 listed endpoints returns an error exactly when
\* at least one install failed (all N failing included), success otherwise.
C2_ErrorIffSomeInstallFailed ==
    \A p \in Procs :
        ApplyRanLoop(p) => ((ret[p] # "nil") <=> (FailedIDs(p) # {}))

\* C2 witness: both of two endpoints failed and the call returned the error.
C2_Witness ==
    \E p \in Procs :
        /\ ApplyRanLoop(p)
        /\ Len(endpoints[p]) = 2
        /\ Cardinality(FailedIDs(p)) = 2
        /\ ret[p] = "failed to apply policies"

\* C3: ApplyACLRules overwrites: once the loop ran, the key's entry is exactly
\* this call's list of successful rule sets whatever it held before; what an
\* earlier apply recorded for endpoints that failed now or are no longer
\* listed is gone.
C3_OverwriteNeverMerge ==
    \A p \in Procs :
        ApplyRanLoop(p) =>
            /\ policyKey[p] \in DOMAIN appliedPolicies
            /\ appliedPolicies[policyKey[p]] = SuccessList(p)
            /\ policyKey[p] \in DOMAIN pre[p] =>
                  \A e \in EntryIDs(pre[p][policyKey[p]]) \ SucceededIDs(p) :
                      e \notin EntryIDs(appliedPolicies[policyKey[p]])

\* C3 witness: the key was tracked with an endpoint that this call did not
\* install on (failed, or not listed any more), and the new entry differs.
C3_Witness ==
    \E p \in Procs :
        /\ ApplyRanLoop(p)
        /\ policyKey[p] \in DOMAIN pre[p]
        /\ EntryIDs(pre[p][policyKey[p]]) \ SucceededIDs(p) # {}
        /\ EntryIDs(pre[p][policyKey[p]]) \ Range(endpoints[p]) # {}
        /\ SucceededIDs(p) # {}
        /\ appliedPolicies[policyKey[p]] # pre[p][policyKey[p]]

\* C4: ApplyACLRules with zero endpoints listed returns success, and a
\* following GetAppliedPolicies(key) reports not-found when the key was not
\* tracked.
C4_NoEndpointsSuccessNotFound ==
    \A p \in Procs :
        ApplyFoundNoEndpoints(p) =>
            /\ ret[p] = "nil"
            /\ (policyKey[p] \notin DOMAIN pre[p] /\ ReadBack(p, policyKey[p]))
                  => (~got[p].exists /\ got[p].ruleSets = <<>>)

\* C4 witness: such a call returned and the key was read back as not found.
C4_Witness ==
    \E p \in Procs :
        /\ ApplyFoundNoEndpoints(p)
        /\ pre[p] = EmptyMap
        /\ ReadBack(p, policyKey[p])
        /\ ~got[p].exists

\* C5: after ApplyACLRules succeeds on a fresh manager whose host has zero
\* endpoints, GetAppliedPolicies(key) reports the key present with an empty
\* list of rule sets.
C5_NoEndpointsTracksEmptyEntry ==
    \A p \in Procs :
        (/\ ApplyFoundNoEndpoints(p)
         /\ ret[p] = "nil"
         /\ pre[p] = EmptyMap
         /\ ReadBack(p, policyKey[p]))
            => (got[p].exists /\ got[p].ruleSets = <<>>)

\* C5 as the code behaves: the zero-endpoint call returns before the map
\* write, so the read-back of a key never tracked reports not-found.
C5_CodeReportsNotFound ==
    \E p \in Procs :
        /\ ApplyFoundNoEndpoints(p)
        /\ ret[p] = "nil"
        /\ pre[p] = EmptyMap
        /\ ReadBack(p, policyKey[p])
        /\ ~got[p].exists

\* C6: ApplyACLRules with zero endpoints listed changes nothing: an entry the
\* key already had is left exactly as it was, and no install is issued.
C6_NoEndpointsNoChange ==
    \A p \in Procs :
        ApplyFoundNoEndpoints(p) =>
            /\ appliedPolicies = pre[p]
            /\ Installs(p) = <<>>
            /\ Len(hostCalls[p]) = 1

\* C6 witness: the key had a non-empty entry from an earlier apply, the host
\* then listed nothing, and the entry is still there.
C6_Witness ==
    \E p \in Procs :
        /\ ApplyFoundNoEndpoints(p)
        /\ policyKey[p] \in DOMAIN pre[p]
        /\ pre[p][policyKey[p]] # <<>>
        /\ policyKey[p] \in DOMAIN appliedPolicies
        /\ appliedPolicies[policyKey[p]] = pre[p][policyKey[p]]

\* C7: when ListEndpoints fails, ApplyACLRules returns an error at once, with
\* no install request issued and the whole tracking index unchanged.
C7_ListErrorAborts ==
    \A p \in Procs :
        (ApplyReturned(p) /\ ~ListSucceeded(p)) =>
            /\ ret[p] # "nil"
            /\ hostCalls[p] = <<HostCall("ListEndpoints", 0, FALSE)>>
            /\ appliedPolicies = pre[p]

\* C7 witness: the list failed on a call for a key that was tracked, and the
\* entry is intact.
C7_Witness ==
    \E p \in Procs :
        /\ ApplyReturned(p)
        /\ ~ListSucceeded(p)
        /\ ret[p] = "failed to list HCN endpoints"
        /\ policyKey[p] \in DOMAIN pre[p]
        /\ pre[p][policyKey[p]] # <<>>
        /\ appliedPolicies = pre[p]

\* C8: within one ApplyACLRules call every listed endpoint gets exactly one
\* install attempt, in list order, whether or not earlier installs failed:
\* at every point of the loop the attempts made are the list's prefix, and at
\* return they are the whole list.
C8_OneAttemptPerEndpointInOrder ==
    \A p \in Procs :
        /\ (op[p] = "ApplyACLRules" /\ pc[p] # "done") =>
              /\ Len(InstallIDs(p)) <= Len(endpoints[p])
              /\ InstallIDs(p) = SubSeq(endpoints[p], 1, Len(InstallIDs(p)))
        /\ ApplyRanLoop(p) => InstallIDs(p) = endpoints[p]

\* C8 witness: the install on the first of two endpoints failed and the
\* second endpoint was still attempted, once.
C8_Witness ==
    \E p \in Procs :
        /\ ApplyRanLoop(p)
        /\ Len(endpoints[p]) = 2
        /\ ~Installs(p)[1].ok
        /\ Len(Installs(p)) = 2
        /\ Installs(p)[2].id = endpoints[p][2]

\* C9: RemoveACLRules on a key with no tracking entry returns success, makes
\* no host call, and leaves the tracking index unchanged.
C9_RemoveUntrackedIsNoOp ==
    \A p \in Procs :
        (RemoveReturned(p) /\ policyKey[p] \notin DOMAIN pre[p]) =>
            /\ ret[p] = "nil"
            /\ hostCalls[p] = <<>>
            /\ appliedPolicies = pre[p]

\* C9 witness: a policy was applied and then removed with a host-side
\* failure (its filter objects are still installed, nothing is tracked), and
\* a further remove of an untracked key returned success.
C9_Witness ==
    \E p \in Procs :
        /\ RemoveReturned(p)
        /\ pre[p] = EmptyMap
        /\ appliedPolicies = EmptyMap
        /\ hostCalls[p] = <<>>
        /\ ret[p] = "nil"
        /\ events = 3
        /\ \E e \in EndpointIDs : hostPolicies[e] # {}

\* C10: RemoveACLRules on a tracked key deletes the entry before any host
\* lookup or removal request, so after apply then remove the key reads back
\* as not found, whether the host-side removals succeeded or failed.
C10_EagerDeleteRoundTrip ==
    \A p \in Procs :
        /\ (op[p] = "RemoveACLRules" /\ hostCalls[p] # <<>>) =>
              policyKey[p] \notin DOMAIN appliedPolicies
        /\ (RemoveReturned(p) /\ policyKey[p] \in DOMAIN pre[p]) =>
              /\ policyKey[p] \notin DOMAIN appliedPolicies
              /\ ReadBack(p, policyKey[p]) => ~got[p].exists

\* C10 witness: a tracked key was removed, a host-side removal failed, and
\* the key reads back as not found.
C10_Witness ==
    \E p \in Procs :
        /\ RemoveReturned(p)
        /\ policyKey[p] \in DOMAIN pre[p]
        /\ pre[p][policyKey[p]] # <<>>
        /\ ret[p] = "failed to remove policies"
        /\ ReadBack(p, policyKey[p])
        /\ ~got[p].exists

(***************************************************************************)
(* Observations of a RemoveACLRules call                                   *)
(***************************************************************************)

\* The rule sets tracked for the call's key when the call started.
EntryAtStart(p) ==
    IF policyKey[p] \in DOMAIN pre[p] THEN pre[p][policyKey[p]] ELSE <<>>

\* The call's key was tracked when the call started and the call returned.
RemoveTrackedReturned(p) == RemoveReturned(p) /\ policyKey[p] \in DOMAIN pre[p]

\* The GetEndpointByID calls of the call, in order.
Lookups(p) ==
    LET IsLookup(c) == c.fn = "GetEndpointByID"
    IN  SelectSeq(hostCalls[p], IsLookup)

\* The RemoveEndpointPolicy requests of the call, in order.
Removals(p) ==
    LET IsRemoval(c) == c.fn = "RemoveEndpointPolicy"
    IN  SelectSeq(hostCalls[p], IsRemoval)

IDsOf(calls) == [i \in 1..Len(calls) |-> calls[i].id]

\* The endpoint ids of an entry's rule sets, in stored order.
EntryIDSeq(entry) == [i \in 1..Len(entry) |-> entry[i].EndpointID]

\* The endpoint ids whose lookup succeeded, in order.
ResolvedIDs(p) ==
    LET Ok(c) == c.ok
    IN  IDsOf(SelectSeq(Lookups(p), Ok))

SomeHostFailure(p) == \E i \in DOMAIN hostCalls[p] : ~hostCalls[p][i].ok

\* C11: RemoveACLRules on a tracked key returns an error exactly when, for at
\* least one recorded rule set, the endpoint lookup or the removal request
\* failed; with every lookup and removal succeeding it returns success.
C11_RemoveErrorIffSomeFailure ==
    \A p \in Procs :
        RemoveTrackedReturned(p) => ((ret[p] # "nil") <=> SomeHostFailure(p))

\* C11 witness: of two recorded rule sets one lookup failed, the other was
\* removed, and the call returned the aggregate error.
C11_Witness ==
    \E p \in Procs :
        /\ RemoveTrackedReturned(p)
        /\ Len(EntryAtStart(p)) = 2
        /\ Len(Lookups(p)) = 2
        /\ \E i \in 1..2 : ~Lookups(p)[i].ok
        /\ \E i \in DOMAIN Removals(p) : Removals(p)[i].ok
        /\ ret[p] = "failed to remove policies"

\* The resolved endpoints whose removal request has been sent: all of them,
\* but for the last while its request is still to be sent.
RequestedIDs(p) ==
    IF pc[p] = "removeRequest"
    THEN SubSeq(ResolvedIDs(p), 1, Len(ResolvedIDs(p)) - 1)
    ELSE ResolvedIDs(p)

\* C12: RemoveACLRules handles every recorded rule set exactly once, in
\* order: the lookups made so far are the prefix of the recorded endpoints
\* (all of them at return); a failed lookup issues no removal request and a
\* resolved one issues exactly one, right after the lookup, and neither
\* failure stops the loop.
C12_EveryRuleSetOnce ==
    \A p \in Procs :
        op[p] = "RemoveACLRules" =>
            /\ Len(Lookups(p)) <= Len(EntryAtStart(p))
            /\ IDsOf(Lookups(p)) =
                  SubSeq(EntryIDSeq(EntryAtStart(p)), 1, Len(Lookups(p)))
            /\ IDsOf(Removals(p)) = RequestedIDs(p)
            /\ pc[p] = "removeRequest" =>
                  hostCalls[p][Len(hostCalls[p])] =
                      HostCall("GetEndpointByID", ruleSets[p][idx[p]].EndpointID, TRUE)
            /\ Len(hostCalls[p]) = Len(Lookups(p)) + Len(Removals(p))
            /\ pc[p] = "done" => Len(Lookups(p)) = Len(EntryAtStart(p))

\* C12 witness: the first lookup failed, the second rule set was still looked
\* up, and its removal request failed too.
C12_Witness ==
    \E p \in Procs :
        /\ RemoveTrackedReturned(p)
        /\ Len(EntryAtStart(p)) = 2
        /\ ~Lookups(p)[1].ok
        /\ Lookups(p)[2].ok
        /\ Len(Removals(p)) = 1
        /\ ~Removals(p)[1].ok

\* C13: every removal request of RemoveACLRules targets an endpoint recorded
\* in the key's entry and carries exactly the policies stored in that rule
\* set; when every host call succeeds the requests reach exactly the recorded
\* endpoints, once each.
C13_RemovalReplaysStoredPolicies ==
    \A p \in Procs :
        op[p] = "RemoveACLRules" =>
            /\ \A i \in DOMAIN Removals(p) :
                  \E j \in DOMAIN EntryAtStart(p) :
                      /\ EntryAtStart(p)[j].EndpointID = Removals(p)[i].id
                      /\ EntryAtStart(p)[j].Policies = Removals(p)[i].policies
            /\ (RemoveTrackedReturned(p) /\ ret[p] = "nil") =>
                  IDsOf(Removals(p)) = EntryIDSeq(EntryAtStart(p))

\* C13 witness: two endpoints tracked with two policies each, both removal
\* requests issued with those two policies, the call returned success.
C13_Witness ==
    \E p \in Procs :
        /\ RemoveTrackedReturned(p)
        /\ ret[p] = "nil"
        /\ Len(EntryAtStart(p)) = 2
        /\ Len(Removals(p)) = 2
        /\ \A i \in 1..2 : Removals(p)[i].policies =
                              buildPolicies(<<RuleAllowHTTP, RuleAllowHTTPS>>)

Tracked(k) == k \in DOMAIN appliedPolicies

TrackedAtStart(p, k) == k \in DOMAIN pre[p]

\* The call has passed the point where RemoveACLRules deletes the entry.
RemoveTookEntry(p) ==
    /\ op[p] = "RemoveACLRules"
    /\ pc[p] \in {"removeLoop", "removeRequest", "done"}
    /\ TrackedAtStart(p, policyKey[p])

\* C14 as stated: a key is in the tracking index exactly when its most recent
\* apply completed (successfully or partially) and no remove of it has
\* completed since.  For the one caller: once an apply has returned success
\* or a partial failure its key is tracked, once a remove has returned its key
\* is not, and a remove that has not returned yet has not changed the index.
C14_TrackedIffApplyCompleted ==
    \A p \in Procs :
        /\ (ApplyReturned(p) /\ ret[p] \in {"nil", "failed to apply policies"})
              => Tracked(policyKey[p])
        /\ RemoveReturned(p) => ~Tracked(policyKey[p])
        /\ (op[p] = "RemoveACLRules" /\ pc[p] # "done")
              => (Tracked(policyKey[p]) <=> TrackedAtStart(p, policyKey[p]))

\* C14 amended: a key is in the tracking index exactly when the last call
\* that wrote its entry was an apply that listed at least one endpoint and
\* reached its map write, and no remove of the key has taken the entry since.
\* An apply that lists no endpoint or cannot list, and every call in flight
\* before its map access, leave the key as it was; a remove deletes the entry
\* at its start, before any host call.
C14_TrackedIffStoredAndNotTaken ==
    \A p \in Procs :
        op[p] # "none" =>
            /\ \A k \in PolicyKeys \ {policyKey[p]} :
                  Tracked(k) <=> TrackedAtStart(p, k)
            /\ IF ApplyRanLoop(p) THEN Tracked(policyKey[p])
               ELSE IF RemoveTookEntry(p) THEN ~Tracked(policyKey[p])
               ELSE Tracked(policyKey[p]) <=> TrackedAtStart(p, policyKey[p])

\* C14 witness: a remove of a tracked key is in flight, it has made no host
\* call yet, and the key is already gone from the index.
C14_Witness ==
    \E p \in Procs :
        /\ RemoveTookEntry(p)
        /\ pc[p] = "removeLoop"
        /\ hostCalls[p] = <<>>
        /\ ~Tracked(policyKey[p])

(***************************************************************************)
(* The update scenario: one caller runs ApplyACLRules(key, R1), then       *)
(* ApplyACLRules(key, R2) with R2 # R1, then RemoveACLRules(key), against  *)
(* a fixed non-empty endpoint set, and every host call succeeds.  The      *)
(* steps are the Manager's own actions, restricted to that script.         *)
(***************************************************************************)

InitUpdate == Init /\ hostEndpoints # <<>>

\* Every host call the caller has made in its current call succeeded.
HostCallsSucceed(p) == \A i \in DOMAIN hostCalls'[p] : hostCalls'[p][i].ok

UpdateApplyFirst ==
    /\ events = 0
    /\ ApplyBuild(1)

UpdateApplySecond ==
    /\ events = 1
    /\ ApplyReturned(1)
    /\ ApplyBuild(1)
    /\ policyKey'[1] = policyKey[1]
    /\ policies'[1] # policies[1]

UpdateInstall == ApplyEndpoint(1) /\ HostCallsSucceed(1)

UpdateApplyLock == ApplyLock(1)

UpdateApplyStore == ApplyStore(1)

UpdateRemoveStart ==
    /\ events = 2
    /\ ApplyReturned(1)
    /\ RemoveLock(1)
    /\ policyKey'[1] = policyKey[1]

UpdateRemoveTake == RemoveTake(1)

UpdateRemoveEndpoint == RemoveEndpoint(1) /\ HostCallsSucceed(1)

UpdateRemoveReturn == RemoveReturn(1)

NextUpdate ==
    \/ UpdateApplyFirst
    \/ UpdateApplySecond
    \/ UpdateInstall
    \/ UpdateApplyLock
    \/ UpdateApplyStore
    \/ UpdateRemoveStart
    \/ UpdateRemoveTake
    \/ UpdateRemoveEndpoint
    \/ UpdateRemoveReturn

SpecUpdate == InitUpdate /\ [][NextUpdate]_vars

\* C15: after apply(key, R1), apply(key, R2) with R2 # R1, and remove(key),
\* run in sequence on a fixed non-empty endpoint set with every host call
\* succeeding, no endpoint holds a filter object any more.
C15_UpdateThenRemoveLeavesHostClean ==
    (RemoveReturned(1) /\ events = 3) =>
        \A e \in EndpointIDs : hostPolicies[e] = {}

\* C15 in the code: the remove returned success and the key is untracked, yet
\* an endpoint still holds an object of the first rule list that the second
\* list does not contain.
C15_CodeLeavesFirstVersion ==
    /\ RemoveReturned(1)
    /\ events = 3
    /\ ret[1] = "nil"
    /\ appliedPolicies = EmptyMap
    /\ \E e \in Range(hostEndpoints) :
          hostPolicies[e] = {[Type |-> "ACL", Settings |-> AclPolicySetting(RuleAllowHTTPS)]}

(***************************************************************************)
(* Concurrent callers: the Manager's methods may be called from several    *)
(* goroutines; m.mu serialises only the map accesses.                      *)
(***************************************************************************)

\* Each caller calls ApplyACLRules once; the calls interleave step by step.
ConcurrentListError(p) == pc[p] = "idle" /\ ApplyListError(p)

ConcurrentNoEndpoints(p) == pc[p] = "idle" /\ ApplyNoEndpoints(p)

ConcurrentBuild(p) == pc[p] = "idle" /\ ApplyBuild(p)

ConcurrentBuildError(p) == pc[p] = "idle" /\ ApplyBuildError(p)

ConcurrentApply(p) ==
    \/ ConcurrentListError(p)
    \/ ConcurrentNoEndpoints(p)
    \/ ConcurrentBuildError(p)
    \/ ConcurrentBuild(p)
    \/ ApplyEndpoint(p)
    \/ ApplyLock(p)
    \/ ApplyStore(p)

\* The endpoint set changes at most once while the two calls run.
ConcurrentHostChange == HostChange /\ events <= Cardinality(Procs)

NextConcurrentApply == ConcurrentHostChange \/ \E p \in Procs : ConcurrentApply(p)

SpecConcurrentApply == Init /\ [][NextConcurrentApply]_vars

\* The step is caller p's map write in ApplyACLRules.
StoreStep(p) == pc[p] = "applyStore" /\ pc'[p] = "done"

\* The entry of key k differs before and after the step.
EntryChanged(k) ==
    \/ (k \in DOMAIN appliedPolicies) # (k \in DOMAIN appliedPolicies')
    \/ /\ k \in DOMAIN appliedPolicies
       /\ k \in DOMAIN appliedPolicies'
       /\ appliedPolicies[k] # appliedPolicies'[k]

\* C16: with two ApplyACLRules calls running concurrently, every map write
\* leaves the writer's key with exactly the writer's own success list,
\* whatever the other call wrote before, and an entry changes at no other
\* step: the entry is always the success list of the last writer, never a
\* mixture.
C16_LastWriteWins ==
    [][ /\ \A p \in Procs :
              StoreStep(p) =>
                  /\ policyKey[p] \in DOMAIN appliedPolicies'
                  /\ appliedPolicies'[policyKey[p]] = SuccessList(p)
        /\ \A k \in PolicyKeys :
              EntryChanged(k) => \E p \in Procs : StoreStep(p) /\ policyKey[p] = k
      ]_vars

\* C16 witness: both calls started before either wrote the map, they applied
\* to the same key with different, non-empty success lists, and the entry is
\* the second caller's list.
C16_Witness ==
    /\ ApplyRanLoop(1) /\ ApplyRanLoop(2)
    /\ policyKey[1] = policyKey[2]
    /\ pre[1] = EmptyMap /\ pre[2] = EmptyMap
    /\ SuccessList(1) # <<>> /\ SuccessList(2) # <<>>
    /\ SuccessList(1) # SuccessList(2)
    /\ appliedPolicies[policyKey[1]] = SuccessList(2)

\* The step is a read accessor called by p: it leaves a result in got[p] and
\* is neither the start of an apply or remove call nor a change of the host.
ReadStep(p) ==
    /\ events' = events + 1
    /\ got'[p].fn # "none"
    /\ hostEndpoints' = hostEndpoints

\* C17: GetAppliedPolicies and ListTrackedPolicies make no host call and
\* leave the tracking index (and the host) as it was; GetAppliedPolicies(key)
\* reports found exactly when key has an entry and then returns the entry's
\* rule sets.
C17_ReadsArePure ==
    [][ \A p \in Procs :
            ReadStep(p) =>
                /\ appliedPolicies' = appliedPolicies
                /\ hostCalls' = hostCalls
                /\ hostPolicies' = hostPolicies
                /\ got'[p].fn = "GetAppliedPolicies" =>
                      /\ got'[p].exists <=> got'[p].key \in DOMAIN appliedPolicies
                      /\ got'[p].exists =>
                            got'[p].ruleSets = appliedPolicies[got'[p].key]
      ]_vars

\* C17 witness: after an apply in which every install failed, the key has an
\* empty entry and GetAppliedPolicies reported it found, with no rule sets.
C17_Witness ==
    \E p \in Procs :
        /\ ApplyRanLoop(p)
        /\ ReadBack(p, policyKey[p])
        /\ got[p].exists
        /\ got[p].ruleSets = <<>>
        /\ appliedPolicies[policyKey[p]] = <<>>

\* The caller's last read was ListTrackedPolicies.
Listed(p) == got[p].fn = "ListTrackedPolicies"

\* C18: ListTrackedPolicies returns exactly the keys that have a tracking
\* entry, each once; a key just applied on a host with endpoints is among
\* them.
C18_ListReturnsTrackedKeys ==
    \A p \in Procs :
        Listed(p) =>
            /\ Range(got[p].keys) = DOMAIN appliedPolicies
            /\ IsInjective(got[p].keys)
            /\ Len(got[p].keys) = Cardinality(DOMAIN appliedPolicies)
            /\ ApplyRanLoop(p) => policyKey[p] \in Range(got[p].keys)

\* C18 witness: two applies for two distinct keys on a host with endpoints,
\* no remove, and the list holds exactly the two keys.
C18_Witness ==
    \E p \in Procs :
        /\ Listed(p)
        /\ ApplyRanLoop(p)
        /\ Len(got[p].keys) = 2
        /\ Range(got[p].keys) = PolicyKeys

\* The caller's apply call returned the policy-building error.
BuildFailed(p) == ApplyReturned(p) /\ ret[p] = "failed to build HCN policies"

\* C19: when encoding a rule fails, ApplyACLRules returns the error having
\* issued no install request to any endpoint and with the tracking index as
\* it was when the call started.
C19_BuildErrorAborts ==
    \A p \in Procs :
        BuildFailed(p) =>
            /\ Installs(p) = <<>>
            /\ hostCalls[p] = <<HostCall("ListEndpoints", 0, TRUE)>>
            /\ appliedPolicies = pre[p]

\* C19 witness: the key was tracked with a rule set, the host has endpoints,
\* a second apply for the key failed to build and the entry is still there.
C19_Witness ==
    \E p \in Procs :
        /\ BuildFailed(p)
        /\ hostEndpoints # <<>>
        /\ policyKey[p] \in DOMAIN appliedPolicies
        /\ appliedPolicies[policyKey[p]] # <<>>

(***************************************************************************)
(* The converter (package converter): NetworkPolicyToACLRules and its      *)
(* helpers.  A Go pointer is a sequence of length 0 (nil) or 1.            *)
(***************************************************************************)

\* Ports and peers per rule entry, and entries per direction, of the
\* enumerated small policies.
MaxPorts == 2
MaxPeers == 2
MaxEntries == 2

\* Shape of the large policies: up to LargeEntries entries of LargeSide ports
\* and LargeSide peers each.
LargeSide == 128
LargeEntries == 5

\* Number of rules at the end of the converter's output that the state keeps
\* (all of them for the enumerated small policies).
OutputWindow == 64

\* priority := uint16(100)
StartPriority == 100

\* *priority++ on a uint16
IncrPriority(priority) == (priority + 1) % 65536

Digit(d) ==
    CASE d = 0 -> "0" [] d = 1 -> "1" [] d = 2 -> "2" [] d = 3 -> "3"
      [] d = 4 -> "4" [] d = 5 -> "5" [] d = 6 -> "6" [] d = 7 -> "7"
      [] d = 8 -> "8" [] d = 9 -> "9"

\* fmt.Sprintf("%d", n)
RECURSIVE FormatInt(_)
FormatInt(n) ==
    IF n < 0 THEN "-" \o FormatInt(0 - n)
    ELSE IF n < 10 THEN Digit(n)
    ELSE FormatInt(n \div 10) \o Digit(n % 10)

\* A resolver that gives selector peers an address of their own.
getPeerAddressSelectors(peer) ==
    IF peer.IPBlock # <<>> THEN peer.IPBlock[1].CIDR ELSE "pods"

getPeerAddress(peer) ==
    IF peer.IPBlock # <<>> THEN peer.IPBlock[1].CIDR ELSE ""

\* A resolution that gives up on protocols it does not know.
protocolToNumberStrict(proto) ==
    IF proto = <<>> THEN "6"
    ELSE CASE proto[1] = "TCP" -> "6"
           [] proto[1] = "UDP" -> "17"
           [] proto[1] = "SCTP" -> "132"
           [] OTHER -> ""

protocolToNumber(proto) ==
    IF proto = <<>> THEN "6"
    ELSE CASE proto[1] = "TCP" -> "6"
           [] proto[1] = "UDP" -> "17"
           [] proto[1] = "SCTP" -> "132"
           [] OTHER -> "6"

\* A resolution that passes the name of a named port on.
portToStringNamed(port) ==
    IF port = <<>> THEN ""
    ELSE CASE port[1].Type = "Int" -> FormatInt(port[1].IntVal)
           [] port[1].Type = "String" -> port[1].StrVal
           [] OTHER -> ""

portToString(port) ==
    IF port = <<>> THEN ""
    ELSE CASE port[1].Type = "Int" -> FormatInt(port[1].IntVal)
           [] port[1].Type = "String" -> ""
           [] OTHER -> ""

\* The hcn.ACLRule literal of convertIngressRule.
IngressACLRule(policy, protocol, localPorts, remoteAddresses, priority) ==
    [Name |-> policy.Namespace \o "/" \o policy.Name \o "-ingress",
     Action |-> "Allow", Direction |-> "In", Protocol |-> protocol,
     LocalPorts |-> localPorts, RemotePorts |-> "",
     RemoteAddresses |-> remoteAddresses, Priority |-> priority]

\* An egress rule literal that puts its port into LocalPorts.
EgressACLRuleLocalPorts(policy, protocol, remotePorts, remoteAddresses, priority) ==
    [Name |-> policy.Namespace \o "/" \o policy.Name \o "-egress",
     Action |-> "Allow", Direction |-> "Out", Protocol |-> protocol,
     LocalPorts |-> remotePorts, RemotePorts |-> "",
     RemoteAddresses |-> remoteAddresses, Priority |-> priority]

\* The hcn.ACLRule literal of convertEgressRule.
EgressACLRule(policy, protocol, remotePorts, remoteAddresses, priority) ==
    [Name |-> policy.Namespace \o "/" \o policy.Name \o "-egress",
     Action |-> "Allow", Direction |-> "Out", Protocol |-> protocol,
     LocalPorts |-> "", RemotePorts |-> remotePorts,
     RemoteAddresses |-> remoteAddresses, Priority |-> priority]

\* The result of a stretch of a loop: the rules it appended and the
\* priority counter after it.
Emitted(rules, priority) == [rules |-> rules, priority |-> priority]

\* A conversion that appends every rule twice.
EmitOneTwice(rule, priority) == Emitted(<<rule, rule>>, IncrPriority(priority))

\* rules = append(rules, rule); *priority++
EmitOne(rule, priority) == Emitted(<<rule>>, IncrPriority(priority))

\* Iterations lo..hi of `for _, from := range ingressRule.From` for one port
\* (protocol and localPorts already resolved; both "" without ports).  One
\* iteration is the loop body; a longer stretch is its first half followed by
\* its second half, which starts from the counter the first half left.
RECURSIVE IngressPeers(_, _, _, _, _, _, _)
\* A peer loop whose later rules are placed before its earlier ones.
IngressPeersReversed(policy, protocol, localPorts, from, lo, hi, priority) ==
    IF lo > hi THEN Emitted(<<>>, priority)
    ELSE IF lo = hi
    THEN LET remoteAddr == getPeerAddress(from[lo])
         IN  IF remoteAddr = ""
             THEN Emitted(<<>>, priority)
             ELSE EmitOne(IngressACLRule(policy, protocol, localPorts, remoteAddr,
                                         priority), priority)
    ELSE LET mid == (lo + hi) \div 2
             first == IngressPeers(policy, protocol, localPorts, from, lo, mid, priority)
             rest == IngressPeers(policy, protocol, localPorts, from, mid + 1, hi,
                                  first.priority)
         IN  Emitted(rest.rules \o first.rules, rest.priority)

IngressPeers(policy, protocol, localPorts, from, lo, hi, priority) ==
    IF lo > hi THEN Emitted(<<>>, priority)
    ELSE IF lo = hi
    THEN LET remoteAddr == getPeerAddress(from[lo])
         IN  IF remoteAddr = ""
             THEN Emitted(<<>>, priority)
             ELSE EmitOne(IngressACLRule(policy, protocol, localPorts, remoteAddr,
                                         priority), priority)
    ELSE LET mid == (lo + hi) \div 2
             first == IngressPeers(policy, protocol, localPorts, from, lo, mid, priority)
             rest == IngressPeers(policy, protocol, localPorts, from, mid + 1, hi,
                                  first.priority)
         IN  Emitted(first.rules \o rest.rules, rest.priority)

\* Iterations lo..hi of `for _, port := range ingressRule.Ports`.
RECURSIVE IngressPorts(_, _, _, _, _)
IngressPorts(policy, ingressRule, lo, hi, priority) ==
    IF lo > hi THEN Emitted(<<>>, priority)
    ELSE IF lo = hi
    THEN LET port == ingressRule.Ports[lo]
         IN  IF Len(ingressRule.From) = 0
             THEN EmitOne(IngressACLRule(policy, protocolToNumber(port.Protocol),
                                         portToString(port.Port), "0.0.0.0/0",
                                         priority), priority)
             ELSE IngressPeers(policy, protocolToNumber(port.Protocol),
                               portToString(port.Port), ingressRule.From,
                               1, Len(ingressRule.From), priority)
    ELSE LET mid == (lo + hi) \div 2
             first == IngressPorts(policy, ingressRule, lo, mid, priority)
             rest == IngressPorts(policy, ingressRule, mid + 1, hi, first.priority)
         IN  Emitted(first.rules \o rest.rules, rest.priority)

\* A conversion that stops after the first port of an entry without peers.
convertIngressRuleFirstPort(policy, ingressRule, priority) ==
    IF Len(ingressRule.Ports) = 0
    THEN IF Len(ingressRule.From) = 0
         THEN EmitOne(IngressACLRule(policy, "", "", "0.0.0.0/0", priority), priority)
         ELSE IngressPeers(policy, "", "", ingressRule.From,
                           1, Len(ingressRule.From), priority)
    ELSE IF Len(ingressRule.From) = 0
         THEN IngressPorts(policy, ingressRule, 1, 1, priority)
         ELSE IngressPorts(policy, ingressRule, 1, Len(ingressRule.Ports), priority)

\* The rules of one ingress entry and the priority counter after it.
convertIngressRule(policy, ingressRule, priority) ==
    IF Len(ingressRule.Ports) = 0
    THEN IF Len(ingressRule.From) = 0
         THEN EmitOne(IngressACLRule(policy, "", "", "0.0.0.0/0", priority), priority)
         ELSE IngressPeers(policy, "", "", ingressRule.From,
                           1, Len(ingressRule.From), priority)
    ELSE IngressPorts(policy, ingressRule, 1, Len(ingressRule.Ports), priority)

\* Iterations lo..hi of `for _, to := range egressRule.To` for one port.
RECURSIVE EgressPeers(_, _, _, _, _, _, _)
\* A peer loop that stops after its first iteration.
EgressPeersFirstOnly(policy, protocol, remotePorts, to, lo, hi, priority) ==
    IF lo > hi THEN Emitted(<<>>, priority)
    ELSE LET remoteAddr == getPeerAddress(to[lo])
         IN  IF remoteAddr = ""
             THEN Emitted(<<>>, priority)
             ELSE EmitOne(EgressACLRule(policy, protocol, remotePorts, remoteAddr,
                                        priority), priority)

EgressPeers(policy, protocol, remotePorts, to, lo, hi, priority) ==
    IF lo > hi THEN Emitted(<<>>, priority)
    ELSE IF lo = hi
    THEN LET remoteAddr == getPeerAddress(to[lo])
         IN  IF remoteAddr = ""
             THEN Emitted(<<>>, priority)
             ELSE EmitOne(EgressACLRule(policy, protocol, remotePorts, remoteAddr,
                                        priority), priority)
    ELSE LET mid == (lo + hi) \div 2
             first == EgressPeers(policy, protocol, remotePorts, to, lo, mid, priority)
             rest == EgressPeers(policy, protocol, remotePorts, to, mid + 1, hi,
                                 first.priority)
         IN  Emitted(first.rules \o rest.rules, rest.priority)

\* Iterations lo..hi of `for _, port := range egressRule.Ports`.
RECURSIVE EgressPorts(_, _, _, _, _)
EgressPorts(policy, egressRule, lo, hi, priority) ==
    IF lo > hi THEN Emitted(<<>>, priority)
    ELSE IF lo = hi
    THEN LET port == egressRule.Ports[lo]
         IN  IF Len(egressRule.To) = 0
             THEN EmitOne(EgressACLRule(policy, protocolToNumber(port.Protocol),
                                        portToString(port.Port), "0.0.0.0/0",
                                        priority), priority)
             ELSE EgressPeers(policy, protocolToNumber(port.Protocol),
                              portToString(port.Port), egressRule.To,
                              1, Len(egressRule.To), priority)
    ELSE LET mid == (lo + hi) \div 2
             first == EgressPorts(policy, egressRule, lo, mid, priority)
             rest == EgressPorts(policy, egressRule, mid + 1, hi, first.priority)
         IN  Emitted(first.rules \o rest.rules, rest.priority)

\* A conversion that yields nothing for an egress entry without ports and
\* peers.
convertEgressRuleSkipsEmpty(policy, egressRule, priority) ==
    IF Len(egressRule.Ports) = 0
    THEN EgressPeers(policy, "", "", egressRule.To, 1, Len(egressRule.To), priority)
    ELSE EgressPorts(policy, egressRule, 1, Len(egressRule.Ports), priority)

\* The rules of one egress entry and the priority counter after it.
convertEgressRule(policy, egressRule, priority) ==
    IF Len(egressRule.Ports) = 0
    THEN IF Len(egressRule.To) = 0
         THEN EmitOne(EgressACLRule(policy, "", "", "0.0.0.0/0", priority), priority)
         ELSE EgressPeers(policy, "", "", egressRule.To, 1, Len(egressRule.To), priority)
    ELSE EgressPorts(policy, egressRule, 1, Len(egressRule.Ports), priority)

(***************************************************************************)
(* NetworkPolicy inputs                                                    *)
(***************************************************************************)

\* *intstr.IntOrString
IntPort(n) == <<[Type |-> "Int", IntVal |-> n, StrVal |-> ""]>>

NamedPort(name) == <<[Type |-> "String", IntVal |-> 0, StrVal |-> name]>>

\* networkingv1.NetworkPolicyPort
PolicyPort(proto, port) == [Protocol |-> proto, Port |-> port]

\* networkingv1.NetworkPolicyPeer
IPBlockPeer(cidr) == [IPBlock |-> <<[CIDR |-> cidr]>>, PodSelector |-> <<>>]

SelectorPeer == [IPBlock |-> <<>>, PodSelector |-> <<"app=web">>]

IngressEntry(ports, from) == [Ports |-> ports, From |-> from]

EgressEntry(ports, to) == [Ports |-> ports, To |-> to]

PortInputs ==
    {PolicyPort(<<"TCP">>, IntPort(80)), PolicyPort(<<"UDP">>, IntPort(53)),
     PolicyPort(<<"SCTP">>, NamedPort("http")), PolicyPort(<<>>, <<>>),
     PolicyPort(<<"ICMP">>, IntPort(443)), PolicyPort(<<"TCP">>, IntPort(443))}

PeerInputs ==
    {IPBlockPeer("10.0.0.0/24"), IPBlockPeer("192.168.1.0/24"),
     IPBlockPeer("0.0.0.0/0"), SelectorPeer}

SeqsUpTo(S, n) == UNION {[1..k -> S] : k \in 0..n}

\* Policies of one entry, with every port list and peer list within the
\* bounds.
SingleEntryPolicies ==
    LET PortLists == SeqsUpTo(PortInputs, MaxPorts)
        PeerLists == SeqsUpTo(PeerInputs, MaxPeers)
    IN  {NetworkPolicy("default", "test-policy", <<IngressEntry(ps, fs)>>, <<>>) :
            ps \in PortLists, fs \in PeerLists}
        \cup
        {NetworkPolicy("default", "test-policy", <<>>, <<EgressEntry(ps, ts)>>) :
            ps \in PortLists, ts \in PeerLists}

\* The entries the policies of several entries are made of: one for each
\* branch of convertIngressRule / convertEgressRule, and one whose peers are
\* all skipped.
EntryShapes ==
    LET tcp80 == PolicyPort(<<"TCP">>, IntPort(80))
        udp53 == PolicyPort(<<"UDP">>, IntPort(53))
        named == PolicyPort(<<"TCP">>, NamedPort("http"))
        a == IPBlockPeer("10.0.0.0/24")
        b == IPBlockPeer("192.168.1.0/24")
    IN  {<<<<>>, <<>>>>,
         <<<<tcp80, udp53>>, <<>>>>,
         <<<<>>, <<a, SelectorPeer, b>>>>,
         <<<<tcp80, named>>, <<SelectorPeer, a>>>>,
         <<<<tcp80>>, <<SelectorPeer>>>>}

MultiEntryPolicies ==
    {NetworkPolicy("default", "test-policy", ingress, egress) :
        ingress \in SeqsUpTo({IngressEntry(e[1], e[2]) : e \in EntryShapes}, MaxEntries),
        egress \in SeqsUpTo({EgressEntry(e[1], e[2]) : e \in EntryShapes}, MaxEntries)}

PolicyInputs == SingleEntryPolicies \cup MultiEntryPolicies

\* Policies whose entries each expand to LargeSide * LargeSide rules.
LargePorts == [i \in 1..LargeSide |-> PolicyPort(<<"TCP">>, IntPort(8000 + i))]

LargePeers == [j \in 1..LargeSide |-> IPBlockPeer("10.0." \o FormatInt(j) \o ".0/24")]

LargePolicies ==
    LET ingress(n) == [k \in 1..n |-> IngressEntry(LargePorts, LargePeers)]
        egress(n) == [k \in 1..n |-> EgressEntry(LargePorts, LargePeers)]
    IN  UNION {{NetworkPolicy("default", "large", ingress(k), egress(n - k)) :
                   k \in 0..n} : n \in 1..LargeEntries}

(***************************************************************************)
(* NetworkPolicyToACLRules, one step per iteration of its two loops        *)
(***************************************************************************)

nonConverterVars == <<managerVars, hostVars, localVars, events, recon, second>>

\* The last OutputWindow rules of the output so far.
KeptRules(rules) ==
    IF Len(rules) > OutputWindow
    THEN SubSeq(rules, Len(rules) - OutputWindow + 1, Len(rules))
    ELSE rules

\* ingressRules := convertIngressRule(...); rules = append(rules,
\* ingressRules...), and the same for egress: out.count is len(rules),
\* out.rules its last rules; out.entryCount is len(ingressRules),
\* out.entryRules its last rules.
AppendRules(o, r) ==
    [o EXCEPT !.i = @ + 1, !.rules = KeptRules(@ \o r.rules),
              !.count = @ + Len(r.rules), !.priority = r.priority,
              !.entryRules = KeptRules(r.rules), !.entryCount = Len(r.rules)]

\* var rules []ACLRule; priority := uint16(100)
ConvertStart ==
    /\ out.pc = "idle"
    /\ out' = [pc |-> "ingress", i |-> 1, rules |-> <<>>, count |-> 0,
               priority |-> StartPriority, entryRules |-> <<>>, entryCount |-> 0]
    /\ UNCHANGED <<np, nonConverterVars>>

\* One iteration of `for _, ingressRule := range np.Spec.Ingress`.
ConvertIngress ==
    /\ out.pc = "ingress"
    /\ out.i <= Len(np.Ingress)
    /\ out' = AppendRules(out, convertIngressRule(np, np.Ingress[out.i], out.priority))
    /\ UNCHANGED <<np, nonConverterVars>>

\* The ingress loop is over; the egress loop starts.
ConvertEgressStart ==
    /\ out.pc = "ingress"
    /\ out.i > Len(np.Ingress)
    /\ out' = [out EXCEPT !.pc = "egress", !.i = 1]
    /\ UNCHANGED <<np, nonConverterVars>>

\* One iteration of `for _, egressRule := range np.Spec.Egress`.
ConvertEgress ==
    /\ out.pc = "egress"
    /\ out.i <= Len(np.Egress)
    /\ out' = AppendRules(out, convertEgressRule(np, np.Egress[out.i], out.priority))
    /\ UNCHANGED <<np, nonConverterVars>>

\* return rules
ConvertReturn ==
    /\ out.pc = "egress"
    /\ out.i > Len(np.Egress)
    /\ out' = [out EXCEPT !.pc = "done"]
    /\ UNCHANGED <<np, nonConverterVars>>

NextConvert ==
    \/ ConvertStart
    \/ ConvertIngress
    \/ ConvertEgressStart
    \/ ConvertEgress
    \/ ConvertReturn

InitConvert ==
    /\ InitManager
    /\ hostEndpoints = <<>>
    /\ np \in PolicyInputs
    /\ out = NotConverted
    /\ recon = NotReconciling

SpecConvert == InitConvert /\ [][NextConvert]_vars

InitConvertLarge ==
    /\ InitManager
    /\ hostEndpoints = <<>>
    /\ np \in LargePolicies
    /\ out = NotConverted
    /\ recon = NotReconciling

SpecConvertLarge == InitConvertLarge /\ [][NextConvert]_vars

\* The converter has returned.
Converted == out.pc = "done"

\* The 0-based position in the output of the k-th rule the state keeps.
Position(k) == out.count - Len(out.rules) + (k - 1)

\* C20: in the output of one NetworkPolicyToACLRules call the i-th rule
\* (0-based) has priority 100 + i, and all the rules of ingress entries come
\* before all the rules of egress entries.
C20_PrioritiesCountFromBase ==
    Converted =>
        /\ \A k \in DOMAIN out.rules :
              out.rules[k].Priority = StartPriority + Position(k)
        /\ \A k \in 1..(Len(out.rules) - 1) :
              ~(out.rules[k].Direction = "Out" /\ out.rules[k + 1].Direction = "In")

\* C20 in the code: a conversion returned more than 65436 rules and its last
\* rule, at a 0-based position p >= 65436, carries priority 100 + p - 65536.
C20_PriorityWrapped ==
    /\ Converted
    /\ out.count > 65536 - StartPriority
    /\ out.rules[Len(out.rules)].Priority = StartPriority + (out.count - 1) - 65536

(***************************************************************************)
(* Observations of one loop iteration of NetworkPolicyToACLRules           *)
(***************************************************************************)

\* An iteration of one of the two loops has just finished: out.entryRules
\* holds what convertIngressRule / convertEgressRule returned for DoneEntry.
EntryDone == out.pc \in {"ingress", "egress"} /\ out.i > 1

\* The entry that iteration converted, with its peer list (From or To)
\* under one name.
DoneEntry ==
    IF out.pc = "ingress"
    THEN [Direction |-> "In", Ports |-> np.Ingress[out.i - 1].Ports,
          Peers |-> np.Ingress[out.i - 1].From]
    ELSE [Direction |-> "Out", Ports |-> np.Egress[out.i - 1].Ports,
          Peers |-> np.Egress[out.i - 1].To]

HasIPBlock(peer) == peer.IPBlock # <<>>

\* The peers of a list that carry an address block, in list order.
Resolvable(peers) == SelectSeq(peers, HasIPBlock)

\* The entries whose iterations have finished, as <<ports, peers>> pairs in
\* conversion order.
EntriesDone ==
    LET ingress == [k \in DOMAIN np.Ingress |->
                       <<np.Ingress[k].Ports, np.Ingress[k].From>>]
        egress == [k \in DOMAIN np.Egress |->
                      <<np.Egress[k].Ports, np.Egress[k].To>>]
    IN  CASE out.pc = "idle" -> <<>>
          [] out.pc = "ingress" -> SubSeq(ingress, 1, out.i - 1)
          [] out.pc = "egress" -> ingress \o SubSeq(egress, 1, out.i - 1)
          [] out.pc = "done" -> ingress \o egress

\* p * q for an entry of p ports and q resolvable peers.
PortsTimesPeers(ports, peers) == Len(ports) * Len(Resolvable(peers))

\* The number of rules of an entry: an empty port list counts as one port
\* (any), an empty peer list as one peer (anywhere).
Expansion(ports, peers) ==
    (IF Len(ports) = 0 THEN 1 ELSE Len(ports))
    * (IF Len(peers) = 0 THEN 1 ELSE Len(Resolvable(peers)))

RECURSIVE SumOver(_, _)
SumOver(Count(_, _), entries) ==
    IF entries = <<>> THEN 0
    ELSE Count(entries[1][1], entries[1][2]) + SumOver(Count, Tail(entries))

\* C21 as stated: every entry of p ports and q resolvable peers yields p * q
\* rules, and the output holds the sum of these products over the entries
\* converted so far.
C21_EveryEntryYieldsProduct ==
    /\ EntryDone => out.entryCount = PortsTimesPeers(DoneEntry.Ports, DoneEntry.Peers)
    /\ out.pc # "idle" => out.count = SumOver(PortsTimesPeers, EntriesDone)

\* C21 amended: an entry with ports and peers yields p * q rules, one with
\* ports and an empty peer list p rules, one with peers and no ports q
\* rules, one with neither exactly one rule; the output holds the sum of
\* these counts over the entries converted so far, zero when there are none.
C21_RuleCountIsSumOfExpansions ==
    /\ EntryDone => out.entryCount = Expansion(DoneEntry.Ports, DoneEntry.Peers)
    /\ out.pc # "idle" => out.count = SumOver(Expansion, EntriesDone)

\* A conversion of several entries has returned; one entry had two ports and
\* two peers of which one was skipped, another had no ports.
C21_Witness ==
    /\ Converted
    /\ Len(EntriesDone) >= 3
    /\ out.count >= 5
    /\ \E k \in DOMAIN EntriesDone :
          /\ Len(EntriesDone[k][1]) = 2
          /\ Len(EntriesDone[k][2]) = 2
          /\ Len(Resolvable(EntriesDone[k][2])) = 1
    /\ \E k \in DOMAIN EntriesDone : Len(EntriesDone[k][1]) = 0

\* The port field a direction fills: localPorts for In, remotePorts for Out.
PortField(rule, direction) ==
    IF direction = "In" THEN rule.LocalPorts ELSE rule.RemotePorts

\* A policy whose only entry is the ingress entry of the given ports and
\* peers has been converted.
ConvertedOnlyIngress(ports, from) ==
    /\ Converted
    /\ np.Ingress = <<IngressEntry(ports, from)>>
    /\ np.Egress = <<>>

\* C22: the rules of an entry with ports and peers are the pairs (port i,
\* resolvable peer j) in the order port-major, peer-minor, each with the
\* protocol number and port string of port i and the CIDR of peer j; a
\* lone ingress entry of port TCP/80 and peer 0.0.0.0/0 gives the single
\* rule protocol "6", localPorts "80", remoteAddresses "0.0.0.0/0",
\* priority 100.
C22_CrossProductPortMajor ==
    /\ (EntryDone /\ Len(DoneEntry.Ports) > 0 /\ Len(DoneEntry.Peers) > 0) =>
          LET ports == DoneEntry.Ports
              peers == Resolvable(DoneEntry.Peers)
              q == Len(peers)
          IN  /\ Len(out.entryRules) = Len(ports) * q
              /\ \A i \in DOMAIN ports : \A j \in DOMAIN peers :
                    LET rule == out.entryRules[(i - 1) * q + j]
                    IN  /\ rule.Protocol = protocolToNumber(ports[i].Protocol)
                        /\ PortField(rule, DoneEntry.Direction) = portToString(ports[i].Port)
                        /\ rule.RemoteAddresses = peers[j].IPBlock[1].CIDR
    /\ ConvertedOnlyIngress(<<PolicyPort(<<"TCP">>, IntPort(80))>>,
                            <<IPBlockPeer("0.0.0.0/0")>>) =>
          /\ Len(out.rules) = 1
          /\ out.rules[1].Protocol = "6"
          /\ out.rules[1].LocalPorts = "80"
          /\ out.rules[1].RemoteAddresses = "0.0.0.0/0"
          /\ out.rules[1].Priority = 100

\* An entry of two different ports and two different address blocks has
\* been converted into four rules.
C22_Witness ==
    /\ EntryDone
    /\ Len(DoneEntry.Ports) = 2
    /\ DoneEntry.Ports[1] # DoneEntry.Ports[2]
    /\ Len(Resolvable(DoneEntry.Peers)) = 2
    /\ DoneEntry.Peers[1] # DoneEntry.Peers[2]
    /\ out.entryCount = 4

\* The CIDRs of the peers of a list that carry an address block.
BlockCIDRs(peers) == {peers[j].IPBlock[1].CIDR : j \in {k \in DOMAIN peers : HasIPBlock(peers[k])}}

\* C23: an entry whose peer list is non-empty and holds only selector peers
\* yields no rule, with or without ports, and the conversion goes on; of a
\* mixed peer list exactly the address-block peers yield rules.
C23_SelectorPeersYieldNothing ==
    (EntryDone /\ Len(DoneEntry.Peers) > 0) =>
        /\ Resolvable(DoneEntry.Peers) = <<>> =>
              /\ out.entryCount = 0
              /\ out.entryRules = <<>>
              /\ out.count = SumOver(Expansion, SubSeq(EntriesDone, 1, Len(EntriesDone) - 1))
        /\ {out.entryRules[k].RemoteAddresses : k \in DOMAIN out.entryRules}
              = BlockCIDRs(DoneEntry.Peers)
        /\ out.entryCount =
              (IF Len(DoneEntry.Ports) = 0 THEN 1 ELSE Len(DoneEntry.Ports))
              * Len(Resolvable(DoneEntry.Peers))

\* An entry with a port and only a selector peer has been converted into no
\* rule after an earlier entry produced some.
C23_Witness ==
    /\ EntryDone
    /\ Len(DoneEntry.Ports) = 1
    /\ DoneEntry.Peers = <<SelectorPeer>>
    /\ out.entryCount = 0
    /\ out.count > 0

\* The 16-bit priority counter when the iteration that has just finished
\* began: it has been incremented once for every rule appended before.
PriorityBefore == (StartPriority + (out.count - out.entryCount)) % 65536

\* C24: an entry with ports and an empty peer list yields one rule per port
\* in port order, each for the port's protocol and port string and for
\* remoteAddresses "0.0.0.0/0", with consecutive priorities; a lone ingress
\* entry of TCP ports 80 and 443 gives two rules of priorities 100 and 101.
C24_PortsWithoutPeers ==
    /\ (EntryDone /\ Len(DoneEntry.Ports) > 0 /\ Len(DoneEntry.Peers) = 0) =>
          /\ Len(out.entryRules) = Len(DoneEntry.Ports)
          /\ \A i \in DOMAIN DoneEntry.Ports :
                /\ out.entryRules[i].RemoteAddresses = "0.0.0.0/0"
                /\ out.entryRules[i].Protocol = protocolToNumber(DoneEntry.Ports[i].Protocol)
                /\ PortField(out.entryRules[i], DoneEntry.Direction)
                      = portToString(DoneEntry.Ports[i].Port)
                /\ out.entryRules[i].Priority = (PriorityBefore + (i - 1)) % 65536
    /\ ConvertedOnlyIngress(<<PolicyPort(<<"TCP">>, IntPort(80)),
                              PolicyPort(<<"TCP">>, IntPort(443))>>, <<>>) =>
          /\ Len(out.rules) = 2
          /\ out.rules[1].LocalPorts = "80" /\ out.rules[1].Priority = 100
          /\ out.rules[2].LocalPorts = "443" /\ out.rules[2].Priority = 101
          /\ out.rules[1].RemoteAddresses = "0.0.0.0/0"
          /\ out.rules[2].RemoteAddresses = "0.0.0.0/0"

\* The policy of one ingress entry with TCP ports 80 and 443 and no peers
\* has been converted into two rules.
C24_Witness ==
    /\ ConvertedOnlyIngress(<<PolicyPort(<<"TCP">>, IntPort(80)),
                              PolicyPort(<<"TCP">>, IntPort(443))>>, <<>>)
    /\ out.count = 2

\* C25: an entry with no ports and no peers yields exactly one rule: any
\* protocol (empty), both port fields empty, remoteAddresses "0.0.0.0/0",
\* action Allow, direction In for ingress and Out for egress, and the value
\* of the priority counter at that point.
C25_EmptyEntryAllowsAll ==
    (EntryDone /\ Len(DoneEntry.Ports) = 0 /\ Len(DoneEntry.Peers) = 0) =>
        /\ out.entryCount = 1
        /\ Len(out.entryRules) = 1
        /\ out.entryRules[1].Protocol = ""
        /\ out.entryRules[1].LocalPorts = ""
        /\ out.entryRules[1].RemotePorts = ""
        /\ out.entryRules[1].RemoteAddresses = "0.0.0.0/0"
        /\ out.entryRules[1].Action = "Allow"
        /\ out.entryRules[1].Direction = DoneEntry.Direction
        /\ out.entryRules[1].Priority = PriorityBefore
        /\ out.priority = (PriorityBefore + 1) % 65536

\* An egress entry with no ports and no peers has been converted after
\* other entries had produced rules.
C25_Witness ==
    /\ EntryDone
    /\ DoneEntry.Direction = "Out"
    /\ Len(DoneEntry.Ports) = 0
    /\ Len(DoneEntry.Peers) = 0
    /\ out.count > 1
    /\ out.entryRules[1].Priority > StartPriority

\* C26: an entry with no ports and with peers yields one rule per peer that
\* carries an address block, in peer order, each with empty protocol, both
\* port fields empty and the peer's CIDR as remoteAddresses.
C26_PeersWithoutPorts ==
    (EntryDone /\ Len(DoneEntry.Ports) = 0 /\ Len(DoneEntry.Peers) > 0) =>
        LET peers == Resolvable(DoneEntry.Peers)
        IN  /\ Len(out.entryRules) = Len(peers)
            /\ \A j \in DOMAIN peers :
                  /\ out.entryRules[j].Protocol = ""
                  /\ out.entryRules[j].LocalPorts = ""
                  /\ out.entryRules[j].RemotePorts = ""
                  /\ out.entryRules[j].RemoteAddresses = peers[j].IPBlock[1].CIDR

\* An entry with no ports and three peers, the middle one a selector, has
\* been converted into two rules.
C26_Witness ==
    /\ EntryDone
    /\ Len(DoneEntry.Ports) = 0
    /\ Len(DoneEntry.Peers) = 3
    /\ ~HasIPBlock(DoneEntry.Peers[2])
    /\ out.entryCount = 2
    /\ out.entryRules[1].RemoteAddresses # out.entryRules[2].RemoteAddresses

\* The port strings the ports of an entry may put into a rule: "" alone for
\* an entry without ports.
PortStrings(ports) ==
    IF Len(ports) = 0 THEN {""} ELSE {portToString(ports[i].Port) : i \in DOMAIN ports}

\* C27: every rule of an ingress entry has direction In, action Allow, its
\* port in localPorts and empty remotePorts; every rule of an egress entry
\* has direction Out, action Allow, its port in remotePorts and empty
\* localPorts; no rule of the output has action Block.
C27_DirectionDecidesPortField ==
    /\ EntryDone =>
          \A k \in DOMAIN out.entryRules :
              LET rule == out.entryRules[k]
              IN  /\ rule.Direction = DoneEntry.Direction
                  /\ rule.Action = "Allow"
                  /\ PortField(rule, DoneEntry.Direction) \in PortStrings(DoneEntry.Ports)
                  /\ DoneEntry.Direction = "In" => rule.RemotePorts = ""
                  /\ DoneEntry.Direction = "Out" => rule.LocalPorts = ""
    /\ out.pc # "idle" =>
          \A k \in DOMAIN out.rules :
              /\ out.rules[k].Action # "Block"
              /\ out.rules[k].Direction = "In" => out.rules[k].RemotePorts = ""
              /\ out.rules[k].Direction = "Out" => out.rules[k].LocalPorts = ""

\* A policy with ingress and egress entries for integer ports has been
\* converted: the output holds an In rule with localPorts set and an Out
\* rule with remotePorts set.
C27_Witness ==
    /\ Converted
    /\ \E k \in DOMAIN out.rules :
          out.rules[k].Direction = "In" /\ out.rules[k].LocalPorts = "80"
    /\ \E k \in DOMAIN out.rules :
          out.rules[k].Direction = "Out" /\ out.rules[k].RemotePorts = "53"

\* A protocol that is set and is none of TCP, UDP, SCTP.
Unrecognized(proto) == proto # <<>> /\ proto[1] \notin {"TCP", "UDP", "SCTP"}

\* C28: the protocol of a rule built from a port specifier is "6" for TCP,
\* "17" for UDP, "132" for SCTP, "6" for an unset protocol and "6" for any
\* other value; it is never the empty string.
C28_ProtocolResolutionTotal ==
    /\ (EntryDone /\ Len(DoneEntry.Ports) > 0 /\ Len(DoneEntry.Peers) = 0) =>
          \A i \in DOMAIN DoneEntry.Ports :
              LET proto == DoneEntry.Ports[i].Protocol
                  number == out.entryRules[i].Protocol
              IN  /\ proto = <<"TCP">> => number = "6"
                  /\ proto = <<"UDP">> => number = "17"
                  /\ proto = <<"SCTP">> => number = "132"
                  /\ proto = <<>> => number = "6"
                  /\ Unrecognized(proto) => number = "6"
    /\ (EntryDone /\ Len(DoneEntry.Ports) > 0) =>
          \A k \in DOMAIN out.entryRules :
              out.entryRules[k].Protocol \in {"6", "17", "132"}

\* An entry whose two ports have an unset and an unrecognized protocol has
\* been converted into two rules for protocol "6".
C28_Witness ==
    /\ EntryDone
    /\ Len(DoneEntry.Ports) = 2
    /\ Len(DoneEntry.Peers) = 0
    /\ DoneEntry.Ports[1].Protocol = <<>>
    /\ Unrecognized(DoneEntry.Ports[2].Protocol)
    /\ out.entryRules[1].Protocol = "6"
    /\ out.entryRules[2].Protocol = "6"

DigitValue(c) ==
    CASE c = "0" -> 0 [] c = "1" -> 1 [] c = "2" -> 2 [] c = "3" -> 3
      [] c = "4" -> 4 [] c = "5" -> 5 [] c = "6" -> 6 [] c = "7" -> 7
      [] c = "8" -> 8 [] c = "9" -> 9 [] OTHER -> -1

\* str is the decimal numeral of the natural number n, without leading
\* zeros.
RECURSIVE IsDecimalOf(_, _)
IsDecimalOf(str, n) ==
    IF n < 10 THEN Len(str) = 1 /\ DigitValue(str) = n
    ELSE /\ Len(str) > 1
         /\ DigitValue(SubSeq(str, Len(str), Len(str))) = n % 10
         /\ IsDecimalOf(SubSeq(str, 1, Len(str) - 1), n \div 10)

\* C29: the port string of a rule built from an integer port is the port's
\* decimal numeral; that of a rule built from a named port or from an unset
\* port is empty.
C29_PortResolution ==
    (EntryDone /\ Len(DoneEntry.Ports) > 0 /\ Len(DoneEntry.Peers) = 0) =>
        \A i \in DOMAIN DoneEntry.Ports :
            LET port == DoneEntry.Ports[i].Port
                str == PortField(out.entryRules[i], DoneEntry.Direction)
            IN  /\ port = <<>> => str = ""
                /\ (port # <<>> /\ port[1].Type = "String") => str = ""
                /\ (port # <<>> /\ port[1].Type = "Int") => IsDecimalOf(str, port[1].IntVal)

\* An entry with the integer port 443 and a named port has been converted:
\* the first rule is for "443", the second for all ports.
C29_Witness ==
    /\ EntryDone
    /\ Len(DoneEntry.Ports) = 2
    /\ Len(DoneEntry.Peers) = 0
    /\ DoneEntry.Ports[1].Port = IntPort(443)
    /\ DoneEntry.Ports[2].Port = NamedPort("http")
    /\ PortField(out.entryRules[1], DoneEntry.Direction) = "443"
    /\ PortField(out.entryRules[2], DoneEntry.Direction) = ""

(***************************************************************************)
(* The reconciler (package controller): NetworkPolicyReconciler.Reconcile  *)
(* and reconcileDelete, run by caller 1 against the manager.  No host      *)
(* change happens here, so events counts the manager calls.                *)
(***************************************************************************)

\* 30 * time.Second, in seconds.
RequeueDelay == 30

\* Number of Reconcile calls of one behaviour that reach the manager.
MaxReconciles == 2

\* ctrl.Request: the NamespacedName of the object to reconcile.
Request(namespace, name) == [Namespace |-> namespace, Name |-> name]

Requests == {Request("default", "test-policy"), Request("default", "policy-2")}

\* req.NamespacedName.String()
NamespacedNameString(req) == req.Namespace \o "/" \o req.Name

\* The pair (ctrl.Result, error) Reconcile returns.
Outcome(requeueAfter, err) == [RequeueAfter |-> requeueAfter, err |-> err]

\* A call of a manager method issued by Reconcile.
ManagerCall(fn, key, rules) == [fn |-> fn, key |-> key, rules |-> rules]

\* The specs the fetched NetworkPolicy may have, as <<ingress, egress>>: no
\* entries, one ingress port, and entries in both directions.
ReconcileSpecs ==
    LET tcp80 == PolicyPort(<<"TCP">>, IntPort(80))
        tcp443 == PolicyPort(<<"TCP">>, IntPort(443))
    IN  {<<<<>>, <<>>>>,
         <<<<IngressEntry(<<tcp80>>, <<>>)>>, <<>>>>,
         <<<<IngressEntry(<<tcp80, tcp443>>, <<IPBlockPeer("10.0.0.0/24"), SelectorPeer>>)>>,
           <<EgressEntry(<<>>, <<>>)>>>>}

\* An outcome that never asks for a requeue.
ApplyOutcomeNoRequeue(err) == Outcome(0, err)

\* What Reconcile returns after ApplyACLRules returned err.
ApplyOutcome(err) ==
    IF err # "nil" THEN Outcome(RequeueDelay, err) ELSE Outcome(0, "nil")

\* A delete path that hands the removal error back to the caller.
DeleteOutcomePropagates(err) == Outcome(0, err)

\* What reconcileDelete returns after RemoveACLRules returned err.
DeleteOutcome(err) == Outcome(0, "nil")

\* Reconcile is entered for a request: no call of it is under way.
ReconcileEnter ==
    /\ recon.pc \in {"idle", "done"}
    /\ pc[1] \in {"idle", "done"}
    /\ events < MaxReconciles
    /\ events < MaxEvents

\* r.Get finds the NetworkPolicy.
ReconcileGetFound ==
    /\ ReconcileEnter
    /\ \E req \in Requests, sp \in ReconcileSpecs :
          /\ np' = NetworkPolicy(req.Namespace, req.Name, sp[1], sp[2])
          /\ recon' = [pc |-> "convert", req |-> req, get |-> "found", calls |-> <<>>,
                       start |-> events, result |-> Outcome(0, "none")]
    /\ out' = NotConverted
    /\ UNCHANGED <<second, managerVars, hostVars, localVars, events>>

\* r.Get answers NotFound: the policy was deleted.
ReconcileGetNotFound ==
    /\ ReconcileEnter
    /\ \E req \in Requests :
          recon' = [pc |-> "delete", req |-> req, get |-> "notFound", calls |-> <<>>,
                    start |-> events, result |-> Outcome(0, "none")]
    /\ np' = NoPolicy
    /\ out' = NotConverted
    /\ UNCHANGED <<second, managerVars, hostVars, localVars, events>>

\* r.Get fails otherwise: the error is returned.
ReconcileGetError ==
    /\ ReconcileEnter
    /\ \E req \in Requests :
          recon' = [pc |-> "done", req |-> req, get |-> "error", calls |-> <<>>,
                    start |-> events, result |-> Outcome(0, "failed to get NetworkPolicy")]
    /\ np' = NoPolicy
    /\ out' = NotConverted
    /\ UNCHANGED <<second, managerVars, hostVars, localVars, events>>

\* rules := converter.NetworkPolicyToACLRules(&np), step by step.
ReconcileConvertStart == recon.pc = "convert" /\ ConvertStart

ReconcileConvertIngress == recon.pc = "convert" /\ ConvertIngress

ReconcileConvertEgressStart == recon.pc = "convert" /\ ConvertEgressStart

ReconcileConvertEgress == recon.pc = "convert" /\ ConvertEgress

ReconcileConvertReturn == recon.pc = "convert" /\ ConvertReturn

\* policyKey := req.NamespacedName.String(); r.HCNManager.ApplyACLRules(
\* policyKey, rules) is called.
ReconcileCallApply ==
    /\ recon.pc = "convert"
    /\ Converted
    /\ recon' = [recon EXCEPT !.pc = "apply",
                    !.calls = Append(@, ManagerCall("ApplyACLRules",
                                        NamespacedNameString(recon.req), out.rules))]
    /\ UNCHANGED <<second, converterVars, managerVars, hostVars, localVars, events>>

\* The call issued last.
IssuedCall == recon.calls[Len(recon.calls)]

\* The issued call has not entered the manager yet.
CallPending(position) == recon.pc = position /\ events = recon.start

\* The entry of ApplyACLRules for the issued call, by what ListEndpoints and
\* buildPolicies answer.
ReconcileApplyListError ==
    CallPending("apply") /\ ApplyListErrorWith(1, IssuedCall.key, IssuedCall.rules)

ReconcileApplyNoEndpoints ==
    CallPending("apply") /\ ApplyNoEndpointsWith(1, IssuedCall.key, IssuedCall.rules)

ReconcileApplyBuildError ==
    CallPending("apply") /\ ApplyBuildErrorWith(1, IssuedCall.key, IssuedCall.rules)

ReconcileApplyBuild ==
    CallPending("apply") /\ ApplyBuildWith(1, IssuedCall.key, IssuedCall.rules)

\* The manager call has returned.
CallReturned(position) ==
    recon.pc = position /\ events = recon.start + 1 /\ pc[1] = "done"

\* ApplyACLRules has returned: requeue after 30 s with the error, or
\* success.
ReconcileApplyReturn ==
    /\ CallReturned("apply")
    /\ recon' = [recon EXCEPT !.pc = "done", !.result = ApplyOutcome(ret[1])]
    /\ UNCHANGED <<second, converterVars, managerVars, hostVars, localVars, events>>

\* return r.reconcileDelete(ctx, req.NamespacedName.String()):
\* r.HCNManager.RemoveACLRules(policyKey) is called.
ReconcileCallRemove ==
    /\ recon.pc = "delete"
    /\ recon' = [recon EXCEPT !.pc = "remove",
                    !.calls = Append(@, ManagerCall("RemoveACLRules",
                                        NamespacedNameString(recon.req), <<>>))]
    /\ UNCHANGED <<second, converterVars, managerVars, hostVars, localVars, events>>

\* The entry of RemoveACLRules for the issued call.
ReconcileRemoveLock == CallPending("remove") /\ RemoveLockWith(1, IssuedCall.key)

\* RemoveACLRules has returned: success either way.
ReconcileDeleteReturn ==
    /\ CallReturned("remove")
    /\ recon' = [recon EXCEPT !.pc = "done", !.result = DeleteOutcome(ret[1])]
    /\ UNCHANGED <<second, converterVars, managerVars, hostVars, localVars, events>>

NextReconcile ==
    \/ ReconcileGetFound
    \/ ReconcileGetNotFound
    \/ ReconcileGetError
    \/ ReconcileConvertStart
    \/ ReconcileConvertIngress
    \/ ReconcileConvertEgressStart
    \/ ReconcileConvertEgress
    \/ ReconcileConvertReturn
    \/ ReconcileCallApply
    \/ ReconcileApplyListError
    \/ ReconcileApplyNoEndpoints
    \/ ReconcileApplyBuildError
    \/ ReconcileApplyBuild
    \/ ApplyEndpoint(1)
    \/ ApplyLock(1)
    \/ ApplyStore(1)
    \/ ReconcileApplyReturn
    \/ ReconcileCallRemove
    \/ ReconcileRemoveLock
    \/ RemoveNotTracked(1)
    \/ RemoveTake(1)
    \/ RemoveEndpoint(1)
    \/ RemoveReturn(1)
    \/ ReconcileDeleteReturn

SpecReconcile == Init /\ [][NextReconcile]_vars

\* Reconcile has returned after finding the policy.
ReconciledFound == recon.pc = "done" /\ recon.get = "found"

\* C30: when Reconcile has found the policy and returned, it issued exactly
\* one manager call, ApplyACLRules with key "namespace/name" and the
\* converter's output for the fetched policy, and no RemoveACLRules; if
\* that call returned an error Reconcile returns that error and
\* RequeueAfter = 30 s, otherwise no error and no requeue.
C30_ApplyErrorRequeues ==
    ReconciledFound =>
        /\ Converted
        /\ np.Namespace = recon.req.Namespace /\ np.Name = recon.req.Name
        /\ recon.calls = <<[fn |-> "ApplyACLRules",
                            key |-> recon.req.Namespace \o "/" \o recon.req.Name,
                            rules |-> out.rules]>>
        /\ events = recon.start + 1
        /\ ApplyReturned(1)
        /\ policyKey[1] = recon.req.Namespace \o "/" \o recon.req.Name
        /\ ApplyRanLoop(1) => policies[1] = buildPolicies(out.rules)
        /\ ret[1] # "nil" => recon.result = [RequeueAfter |-> 30, err |-> ret[1]]
        /\ ret[1] = "nil" => recon.result = [RequeueAfter |-> 0, err |-> "nil"]

\* Reconcile has returned an apply error with a requeue after an apply of
\* three rules that failed on one of two endpoints.
C30_Witness ==
    /\ ReconciledFound
    /\ Len(recon.calls[1].rules) = 3
    /\ Len(endpoints[1]) = 2
    /\ Len(applyErrors[1]) = 1
    /\ recon.result.RequeueAfter = 30
    /\ recon.result.err # "nil"

\* Reconcile has returned after finding that the policy no longer exists.
ReconciledNotFound == recon.pc = "done" /\ recon.get = "notFound"

\* C31: when Reconcile has found the policy gone and returned, it issued
\* exactly one manager call, RemoveACLRules with key "namespace/name", and no
\* ApplyACLRules; it returns no error and no requeue, whatever
\* RemoveACLRules returned.
C31_DeleteAlwaysSucceeds ==
    ReconciledNotFound =>
        /\ Len(recon.calls) = 1
        /\ recon.calls[1].fn = "RemoveACLRules"
        /\ recon.calls[1].key = recon.req.Namespace \o "/" \o recon.req.Name
        /\ events = recon.start + 1
        /\ RemoveReturned(1)
        /\ policyKey[1] = recon.req.Namespace \o "/" \o recon.req.Name
        /\ out = NotConverted
        /\ recon.result = [RequeueAfter |-> 0, err |-> "nil"]

\* Reconcile has returned success for a deleted policy although
\* RemoveACLRules, removing what an earlier Reconcile had applied, returned
\* an error.
C31_Witness ==
    /\ ReconciledNotFound
    /\ policyKey[1] \in DOMAIN pre[1]
    /\ ret[1] \notin {"nil", "none"}
    /\ recon.result.err = "nil"

(***************************************************************************)
(* Concurrent ApplyACLRules and RemoveACLRules calls on one key, against   *)
(* an endpoint list that does not change.                                  *)
(***************************************************************************)

\* The key all the calls are for.
SharedKey == "default/test-policy"

\* Caller 1 calls again and again; every other caller calls once, while
\* caller 1's calls run.
RaceEnter(p) == p = 1 \/ pc[p] = "idle"

\* The rules a caller applies: each caller has its own list.
RaceRules(p) == IF p = 1 THEN <<RuleAllowHTTP>> ELSE <<RuleAllowHTTP, RuleAllowHTTPS>>

RaceApplyListError(p) ==
    RaceEnter(p) /\ ApplyListErrorWith(p, SharedKey, RaceRules(p))

RaceApplyNoEndpoints(p) ==
    RaceEnter(p) /\ ApplyNoEndpointsWith(p, SharedKey, RaceRules(p))

RaceApplyBuildError(p) ==
    RaceEnter(p) /\ ApplyBuildErrorWith(p, SharedKey, RaceRules(p))

RaceApplyBuild(p) ==
    RaceEnter(p) /\ ApplyBuildWith(p, SharedKey, RaceRules(p))

RaceRemoveLock(p) == RaceEnter(p) /\ RemoveLockWith(p, SharedKey)

RaceCall(p) ==
    \/ RaceApplyListError(p)
    \/ RaceApplyNoEndpoints(p)
    \/ RaceApplyBuildError(p)
    \/ RaceApplyBuild(p)
    \/ ApplyEndpoint(p)
    \/ ApplyLock(p)
    \/ ApplyStore(p)
    \/ RaceRemoveLock(p)
    \/ RemoveNotTracked(p)
    \/ RemoveTake(p)
    \/ RemoveEndpoint(p)
    \/ RemoveReturn(p)

NextRace == \E p \in Procs : RaceCall(p)

SpecRace == Init /\ [][NextRace]_vars

\* C32: a caller that holds m.mu, or has just taken it, adds no host call
\* to its log; it holds the lock only at the map write of ApplyACLRules and
\* at the lookup-and-delete of RemoveACLRules, and never when its call has
\* returned.
C32_NoHostCallUnderLock ==
    [][\A p \in Procs :
          /\ (mu = p \/ mu' = p) =>
                (hostCalls'[p] = hostCalls[p] \/ hostCalls'[p] = <<>>)
          /\ mu' = p => pc'[p] \in {"applyStore", "removeLookup"}
          /\ pc'[p] = "done" => mu' # p]_vars

\* One caller holds the lock at its lookup while the other is in the middle
\* of its install loop, having issued host calls.
C32_Witness ==
    /\ mu = 1
    /\ pc[1] = "removeLookup"
    /\ pc[2] = "applyLoop"
    /\ Len(hostCalls[2]) >= 2

(***************************************************************************)
(* A removal that fails on the host, and its retry                         *)
(***************************************************************************)

\* ApplyACLRules(key, rules) on a non-empty endpoint list.
RetryApply == events = 0 /\ ApplyBuild(1)

\* RemoveACLRules(key) after the apply has returned.
RetryRemove ==
    /\ events = 1
    /\ ApplyReturned(1)
    /\ RemoveLockWith(1, policyKey[1])

\* The removal has returned its aggregate error: RemoveACLRules(key) is
\* called again, by caller 2, so that what the failed call did stays in
\* view.
RetryRemoveAgain ==
    /\ events = 2
    /\ RemoveReturned(1)
    /\ ret[1] # "nil"
    /\ RemoveLockWith(2, policyKey[1])

RetryStep(p) ==
    \/ ApplyEndpoint(p)
    \/ ApplyLock(p)
    \/ ApplyStore(p)
    \/ RemoveNotTracked(p)
    \/ RemoveTake(p)
    \/ RemoveEndpoint(p)
    \/ RemoveReturn(p)

NextRetry ==
    \/ RetryApply
    \/ RetryRemove
    \/ RetryRemoveAgain
    \/ \E p \in Procs : RetryStep(p)

SpecRetry == InitUpdate /\ [][NextRetry]_vars

\* The filter objects the failed removal was to take off endpoint e.
LeftBehind(p, e) ==
    UNION {Range(ruleSets[p][i].Policies) :
              i \in {j \in DOMAIN ruleSets[p] : ruleSets[p][j].EndpointID = e}}

\* C33: the retry of a RemoveACLRules call that returned an aggregate error
\* returns nil without any host call; the key has no tracking entry, and
\* every endpoint whose removal failed still holds the filter objects.
C33_RetryRemovesNothing ==
    RemoveReturned(2) =>
        /\ ret[2] = "nil"
        /\ hostCalls[2] = <<>>
        /\ policyKey[2] = policyKey[1]
        /\ policyKey[2] \notin DOMAIN appliedPolicies
        /\ \A e \in Range(removeErrors[1]) : LeftBehind(1, e) \subseteq hostPolicies[e]

\* The retry has returned after a removal that failed on one of two
\* endpoints, whose filter objects are still installed.
C33_Witness ==
    /\ RemoveReturned(2)
    /\ Len(ruleSets[1]) = 2
    /\ Len(removeErrors[1]) = 1
    /\ \E e \in Range(removeErrors[1]) :
          LeftBehind(1, e) # {} /\ LeftBehind(1, e) \subseteq hostPolicies[e]

(***************************************************************************)
(* The same concurrent calls on a host whose calls always succeed          *)
(***************************************************************************)

CleanApplyNoEndpoints(p) == RaceApplyNoEndpoints(p)

CleanApplyBuild(p) == RaceApplyBuild(p)

CleanApplyEndpoint(p) == ApplyEndpoint(p) /\ HostCallsSucceed(p)

CleanRemoveLock(p) == RaceRemoveLock(p)

CleanRemoveEndpoint(p) == RemoveEndpoint(p) /\ HostCallsSucceed(p)

CleanCall(p) ==
    \/ CleanApplyNoEndpoints(p)
    \/ CleanApplyBuild(p)
    \/ CleanApplyEndpoint(p)
    \/ ApplyLock(p)
    \/ ApplyStore(p)
    \/ CleanRemoveLock(p)
    \/ RemoveNotTracked(p)
    \/ RemoveTake(p)
    \/ CleanRemoveEndpoint(p)
    \/ RemoveReturn(p)

NextRaceClean == \E p \in Procs : CleanCall(p)

SpecRaceClean == Init /\ [][NextRaceClean]_vars

\* No ApplyACLRules or RemoveACLRules call is in flight.
Quiescent == \A p \in Procs : pc[p] \in {"idle", "done"}

\* The filter objects of a recorded rule set are on its endpoint.
Installed(ruleSet) == Range(ruleSet.Policies) \subseteq hostPolicies[ruleSet.EndpointID]

\* C34: with an unchanging endpoint list and host calls that all succeed,
\* whenever no call is in flight every rule set recorded in the tracking
\* index is installed on its endpoint, however concurrent ApplyACLRules
\* and RemoveACLRules calls on the key interleave.
C34_TrackedImpliesInstalled ==
    Quiescent =>
        \A k \in DOMAIN appliedPolicies :
            \A i \in DOMAIN appliedPolicies[k] : Installed(appliedPolicies[k][i])

\* C34 in the code: an apply and a remove of the key have both returned
\* nil, the apply's rule sets are recorded, and an endpoint lacks a recorded
\* filter object: the remove, which had taken the earlier entry, took the
\* object off the endpoint after the apply had installed it again.
C34_TrackedButRemoved ==
    /\ Quiescent
    /\ RemoveReturned(1) /\ ret[1] = "nil"
    /\ ApplyReturned(2) /\ ret[2] = "nil"
    /\ SharedKey \in DOMAIN appliedPolicies
    /\ appliedPolicies[SharedKey] = ruleSets[2]
    /\ \E i \in DOMAIN appliedPolicies[SharedKey] : ~Installed(appliedPolicies[SharedKey][i])

(***************************************************************************)
(* Two concurrent RemoveACLRules calls on a tracked key                    *)
(***************************************************************************)

\* ApplyACLRules(key, rules) by caller 1, which tracks the key.
TwoRemovesApply == events = 0 /\ ApplyBuild(1)

\* Once the apply has returned, each caller calls RemoveACLRules(key) once.
TwoRemovesLock(p) ==
    /\ events >= 1
    /\ ApplyReturned(1) \/ op[1] = "RemoveACLRules"
    /\ op[p] # "RemoveACLRules"
    /\ RemoveLockWith(p, policyKey[1])

NextTwoRemoves ==
    \/ TwoRemovesApply
    \/ \E p \in Procs : TwoRemovesLock(p) \/ RetryStep(p)

SpecTwoRemoves == InitUpdate /\ [][NextTwoRemoves]_vars

\* C35: of two RemoveACLRules calls on a tracked key that have both passed
\* their lookup, exactly one took the recorded rule sets, and only that one
\* issues host calls; the other found the key absent, made no host call and
\* returned nil.
C35_OneRemoveTakesTheEntry ==
    (\A p \in Procs : op[p] = "RemoveACLRules" /\
                       pc[p] \in {"removeLoop", "removeRequest", "done"}) =>
        \E p \in Procs :
            /\ RemoveTookEntry(p)
            /\ ruleSets[p] = pre[p][policyKey[p]]
            /\ \A q \in Procs \ {p} :
                  /\ ~RemoveTookEntry(q)
                  /\ pc[q] = "done"
                  /\ ret[q] = "nil"
                  /\ hostCalls[q] = <<>>

\* Caller 2 took the two recorded rule sets and is in the middle of its
\* removal loop when caller 1's remove has already returned nil without a
\* host call.
C35_Witness ==
    /\ RemoveTookEntry(2)
    /\ Len(ruleSets[2]) = 2
    /\ pc[2] = "removeLoop"
    /\ Len(hostCalls[2]) >= 1
    /\ RemoveReturned(1)
    /\ hostCalls[1] = <<>>

(***************************************************************************)
(* Policies whose rules encode to the same filter objects                  *)
(***************************************************************************)

\* The filter objects a step took off endpoint e.
TakenOff(e) == hostPolicies[e] \ hostPolicies'[e]

\* The filter objects the entry of key k records for endpoint e.
RecordedFor(k, e) ==
    UNION {Range(appliedPolicies[k][i].Policies) :
              i \in {j \in DOMAIN appliedPolicies[k] : appliedPolicies[k][j].EndpointID = e}}

\* C36: a removal request of RemoveACLRules(k1) never takes off an endpoint
\* a filter object that the tracking entry of a different key k2 records
\* for that endpoint.
C36_RemoveSparesOtherKeys ==
    [][\A p \in Procs :
          (pc[p] \in {"removeLoop", "removeRequest"} /\ hostCalls'[p] # hostCalls[p]) =>
              \A e \in EndpointIDs :
                  \A k2 \in DOMAIN appliedPolicies \ {policyKey[p]} :
                      TakenOff(e) \cap RecordedFor(k2, e) = {}]_vars

\* RemoveACLRules(k1) returned nil after its removal requests, another key
\* k2 was tracked when it started and still is, and an object k2 records for
\* a present endpoint is no longer on the host.
C36_OtherKeyLostObjects ==
    /\ RemoveReturned(1)
    /\ ret[1] = "nil"
    /\ hostCalls[1] # <<>>
    /\ \E k2 \in (DOMAIN pre[1] \cap DOMAIN appliedPolicies) \ {policyKey[1]} :
          /\ appliedPolicies[k2] = pre[1][k2]
          /\ \E e \in Range(hostEndpoints) :
                /\ RecordedFor(k2, e) # {}
                /\ ~(RecordedFor(k2, e) \subseteq hostPolicies[e])

(***************************************************************************)
(* Two Manager instances on one host: caller 1 calls the first Manager,    *)
(* caller 2 the second                                                     *)
(***************************************************************************)

\* Caller 2 calls ApplyACLRules(key, rules) and then RemoveACLRules(key) on
\* the second Manager.  The entries of its ApplyACLRules:
SecondApplyListError ==
    pc[2] = "idle" /\ ApplyListErrorOn(2, SharedKey, RaceRules(2), second.appliedPolicies)

SecondApplyNoEndpoints ==
    pc[2] = "idle" /\ ApplyNoEndpointsOn(2, SharedKey, RaceRules(2), second.appliedPolicies)

SecondApplyBuildError ==
    pc[2] = "idle" /\ ApplyBuildErrorOn(2, SharedKey, RaceRules(2), second.appliedPolicies)

SecondApplyBuild ==
    pc[2] = "idle" /\ ApplyBuildOn(2, SharedKey, RaceRules(2), second.appliedPolicies)

\* m.mu.Lock() after the loop, on the second Manager's lock.
SecondApplyLock ==
    /\ pc[2] = "applyLoop"
    /\ idx[2] > Len(endpoints[2])
    /\ second.mu = 0
    /\ second' = [second EXCEPT !.mu = 2]
    /\ pc' = [pc EXCEPT ![2] = "applyStore"]
    /\ UNCHANGED <<recon, converterVars, managerVars, hostVars, op, policyKey, endpoints,
                   policies, idx, ruleSets, applyErrors, removeErrors, hostCalls, ret,
                   pre, got, events>>

\* The map write on the second Manager, m.mu.Unlock(), and the return value.
SecondApplyStore ==
    /\ pc[2] = "applyStore"
    /\ second.mu = 2
    /\ second' = [appliedPolicies |->
                     StoreTracking(second.appliedPolicies, policyKey[2], ruleSets[2]),
                  mu |-> 0]
    /\ ret' = [ret EXCEPT ![2] = ApplyResult(applyErrors[2], endpoints[2])]
    /\ pc' = [pc EXCEPT ![2] = "done"]
    /\ UNCHANGED <<recon, converterVars, managerVars, hostVars, op, policyKey, endpoints,
                   policies, idx, ruleSets, applyErrors, removeErrors, hostCalls, pre,
                   got, events>>

\* Entry of RemoveACLRules on the second Manager and m.mu.Lock().
SecondRemoveLock ==
    /\ ApplyReturned(2)
    /\ BeginCallOn(2, "RemoveACLRules", SharedKey, second.appliedPolicies)
    /\ second.mu = 0
    /\ second' = [second EXCEPT !.mu = 2]
    /\ hostCalls' = [hostCalls EXCEPT ![2] = <<>>]
    /\ endpoints' = [endpoints EXCEPT ![2] = <<>>]
    /\ policies' = [policies EXCEPT ![2] = <<>>]
    /\ ret' = [ret EXCEPT ![2] = "none"]
    /\ pc' = [pc EXCEPT ![2] = "removeLookup"]
    /\ UNCHANGED <<recon, converterVars, managerVars, hostVars>>

\* The key is not in the second Manager's index: unlock and return nil.
SecondRemoveNotTracked ==
    /\ pc[2] = "removeLookup"
    /\ second.mu = 2
    /\ policyKey[2] \notin DOMAIN second.appliedPolicies
    /\ second' = [second EXCEPT !.mu = 0]
    /\ ret' = [ret EXCEPT ![2] = "nil"]
    /\ pc' = [pc EXCEPT ![2] = "done"]
    /\ UNCHANGED <<recon, converterVars, managerVars, hostVars, op, policyKey, endpoints,
                   policies, idx, ruleSets, applyErrors, removeErrors, hostCalls, pre,
                   got, events>>

\* The key is in the second Manager's index: take its rule sets, delete the
\* entry, unlock.
SecondRemoveTake ==
    /\ pc[2] = "removeLookup"
    /\ second.mu = 2
    /\ policyKey[2] \in DOMAIN second.appliedPolicies
    /\ ruleSets' = [ruleSets EXCEPT ![2] = second.appliedPolicies[policyKey[2]]]
    /\ second' = [appliedPolicies |-> DeleteTracking(second.appliedPolicies, policyKey[2]),
                  mu |-> 0]
    /\ pc' = [pc EXCEPT ![2] = "removeLoop"]
    /\ UNCHANGED <<recon, converterVars, managerVars, hostVars, op, policyKey, endpoints,
                   policies, idx, applyErrors, removeErrors, hostCalls, ret, pre, got,
                   events>>

\* The calls of caller 2 on the second Manager; the loops touch only the
\* host and the call's locals.
SecondCall ==
    \/ SecondApplyListError
    \/ SecondApplyNoEndpoints
    \/ SecondApplyBuildError
    \/ SecondApplyBuild
    \/ ApplyEndpoint(2)
    \/ SecondApplyLock
    \/ SecondApplyStore
    \/ SecondRemoveLock
    \/ SecondRemoveNotTracked
    \/ SecondRemoveTake
    \/ RemoveEndpoint(2)
    \/ RemoveReturn(2)

\* The calls of caller 1 on the first Manager, on either key.
FirstApplyListError == \E k \in PolicyKeys : ApplyListErrorWith(1, k, RaceRules(1))

FirstApplyNoEndpoints == \E k \in PolicyKeys : ApplyNoEndpointsWith(1, k, RaceRules(1))

FirstApplyBuildError == \E k \in PolicyKeys : ApplyBuildErrorWith(1, k, RaceRules(1))

FirstApplyBuild == \E k \in PolicyKeys : ApplyBuildWith(1, k, RaceRules(1))

FirstCall ==
    \/ FirstApplyListError
    \/ FirstApplyNoEndpoints
    \/ FirstApplyBuildError
    \/ FirstApplyBuild
    \/ ApplyEndpoint(1)
    \/ ApplyLock(1)
    \/ ApplyStore(1)
    \/ RemoveLock(1)
    \/ RemoveNotTracked(1)
    \/ RemoveTake(1)
    \/ RemoveEndpoint(1)
    \/ RemoveReturn(1)

NextInstances == FirstCall \/ SecondCall

SpecInstances == Init /\ [][NextInstances]_vars

\* The entry of key k in map m, or nothing.
Entry(m, k) == IF k \in DOMAIN m THEN <<m[k]>> ELSE <<>>

\* C37: a step changes the entry of a key in a Manager's index only when it
\* is the map write or delete, under that Manager's lock, of a call on that
\* very key and that very Manager: every other key's entry, and the other
\* Manager's whole index, stay as they were.
C37_OtherEntriesUntouched ==
    [][/\ \A k \in PolicyKeys :
             Entry(appliedPolicies', k) # Entry(appliedPolicies, k) =>
                /\ mu = 1 /\ policyKey[1] = k
                /\ pc[1] \in {"applyStore", "removeLookup"}
                /\ second'.appliedPolicies = second.appliedPolicies
       /\ \A k \in PolicyKeys :
             Entry(second'.appliedPolicies, k) # Entry(second.appliedPolicies, k) =>
                /\ second.mu = 2 /\ policyKey[2] = k
                /\ pc[2] \in {"applyStore", "removeLookup"}
                /\ appliedPolicies' = appliedPolicies
       /\ DOMAIN appliedPolicies' \subseteq PolicyKeys
       /\ DOMAIN second'.appliedPolicies \subseteq PolicyKeys]_vars

\* RemoveACLRules(key) on the first Manager has taken and deleted its entry
\* while the second Manager, which applied the same key in between, still
\* tracks it.
C37_Witness ==
    /\ RemoveReturned(1)
    /\ policyKey[1] \in DOMAIN pre[1]
    /\ policyKey[1] \notin DOMAIN appliedPolicies
    /\ ApplyReturned(2)
    /\ policyKey[2] = policyKey[1]
    /\ policyKey[1] \in DOMAIN second.appliedPolicies
    /\ second.appliedPolicies[policyKey[1]] # <<>>

(***************************************************************************)
(* ApplyACLRules twice with the same rules                                 *)
(***************************************************************************)

ReapplyFirst == events = 0 /\ ApplyBuild(1)

\* The second call: same key, same rules.
ReapplySecond ==
    /\ events = 1
    /\ ApplyReturned(1)
    /\ ApplyBuild(1)
    /\ policyKey'[1] = policyKey[1]
    /\ policies'[1] = policies[1]

\* Every install succeeds.
ReapplyInstall == ApplyEndpoint(1) /\ HostCallsSucceed(1)

ReapplyLock == ApplyLock(1)

ReapplyStore == ApplyStore(1)

NextReapply ==
    \/ ReapplyFirst
    \/ ReapplySecond
    \/ ReapplyInstall
    \/ ReapplyLock
    \/ ReapplyStore

SpecReapply == InitUpdate /\ [][NextReapply]_vars

\* The second of the two calls has returned.
Reapplied == ApplyReturned(1) /\ events = 2

\* C38: after the second ApplyACLRules(key, rules) with the same rules on
\* the same endpoints, all installs succeeding, the tracking index is what
\* the first call left, and the second call issued exactly one install
\* request per endpoint, in list order, each carrying all the policies.
C38_ReapplySameTrackingFullInstall ==
    Reapplied =>
        /\ ret[1] = "nil"
        /\ policyKey[1] \in DOMAIN pre[1]
        /\ appliedPolicies = pre[1]
        /\ endpoints[1] = hostEndpoints
        /\ Len(hostCalls[1]) = 1 + Len(hostEndpoints)
        /\ InstallIDs(1) = hostEndpoints
        /\ \A i \in DOMAIN Installs(1) :
              Installs(1)[i].ok /\ Installs(1)[i].policies = policies[1]

\* The second call has returned on two endpoints with two policies each.
C38_Witness ==
    /\ Reapplied
    /\ Len(hostEndpoints) = 2
    /\ Len(Installs(1)) = 2
    /\ Len(policies[1]) = 2
    /\ Len(appliedPolicies[policyKey[1]]) = 2

(***************************************************************************)
(* Termination of the calls: the concurrent callers under fair scheduling  *)
(***************************************************************************)

\* Caller 1 calls ApplyACLRules and then RemoveACLRules; caller 2 makes one
\* call of either method at any moment.
FairMayApply(p) == pc[p] = "idle"

FairMayRemove(p) == IF p = 1 THEN ApplyReturned(1) ELSE pc[p] = "idle"

FairApplyListError(p) ==
    FairMayApply(p) /\ ApplyListErrorWith(p, SharedKey, RaceRules(p))

FairApplyNoEndpoints(p) ==
    FairMayApply(p) /\ ApplyNoEndpointsWith(p, SharedKey, RaceRules(p))

FairApplyBuildError(p) ==
    FairMayApply(p) /\ ApplyBuildErrorWith(p, SharedKey, RaceRules(p))

FairApplyBuild(p) ==
    FairMayApply(p) /\ ApplyBuildWith(p, SharedKey, RaceRules(p))

\* RemoveACLRules(key) is entered; the caller now waits at m.mu.Lock().
FairRemoveEnter(p) ==
    /\ FairMayRemove(p)
    /\ BeginCall(p, "RemoveACLRules", SharedKey)
    /\ hostCalls' = [hostCalls EXCEPT ![p] = <<>>]
    /\ endpoints' = [endpoints EXCEPT ![p] = <<>>]
    /\ policies' = [policies EXCEPT ![p] = <<>>]
    /\ ret' = [ret EXCEPT ![p] = "none"]
    /\ pc' = [pc EXCEPT ![p] = "removeWait"]
    /\ UNCHANGED <<second, recon, converterVars, managerVars, hostVars>>

\* m.mu.Lock() of RemoveACLRules is granted.
FairRemoveAcquire(p) ==
    /\ pc[p] = "removeWait"
    /\ mu = 0
    /\ mu' = p
    /\ pc' = [pc EXCEPT ![p] = "removeLookup"]
    /\ UNCHANGED <<second, recon, converterVars, appliedPolicies, hostVars, op, policyKey,
                   endpoints, policies, idx, ruleSets, applyErrors, removeErrors,
                   hostCalls, ret, pre, got, events>>

\* The steps of a running call that wait for nothing but the caller itself
\* and a host call that returns.
FairRun(p) ==
    \/ ApplyEndpoint(p)
    \/ ApplyStore(p)
    \/ RemoveNotTracked(p)
    \/ RemoveTake(p)
    \/ RemoveEndpoint(p)
    \/ RemoveReturn(p)

\* The steps that wait for m.mu.
FairAcquire(p) == ApplyLock(p) \/ FairRemoveAcquire(p)

\* The entry of a call.
FairEnter(p) ==
    \/ FairApplyListError(p)
    \/ FairApplyNoEndpoints(p)
    \/ FairApplyBuildError(p)
    \/ FairApplyBuild(p)
    \/ FairRemoveEnter(p)

NextFair == \E p \in Procs : FairEnter(p) \/ FairRun(p) \/ FairAcquire(p)

\* Every host call returns and a running caller keeps running (weak
\* fairness of its steps); the lock is granted to a caller that keeps
\* finding it free (strong fairness of the acquisitions).
SpecFair ==
    /\ Init
    /\ [][NextFair]_vars
    /\ \A p \in Procs : WF_vars(FairRun(p)) /\ SF_vars(FairAcquire(p))

\* The caller is inside a call.
InCall(p) == pc[p] \notin {"idle", "done"}

\* The host calls of the caller's call so far stay within one per loop
\* position: one ListEndpoints and one install per endpoint passed in an
\* apply, at most one lookup and one removal per rule set passed in a remove.
CallWithinBudget(p) ==
    /\ idx[p] >= 1
    /\ op[p] = "ApplyACLRules" =>
          /\ Len(hostCalls[p]) = 1 + Len(Installs(p))
          /\ hostCalls[p][1].fn = "ListEndpoints"
          /\ idx[p] <= Len(endpoints[p]) + 1
          /\ InstallIDs(p) = SubSeq(endpoints[p], 1, Len(Installs(p)))
          /\ pc[p] = "applyLoop" => Len(Installs(p)) = idx[p] - 1
    /\ op[p] = "RemoveACLRules" =>
          /\ Len(hostCalls[p]) = Len(Lookups(p)) + Len(Removals(p))
          /\ idx[p] <= Len(ruleSets[p]) + 1
          /\ Len(Removals(p)) <= Len(Lookups(p))
          /\ Len(Lookups(p)) <= Len(ruleSets[p])
          /\ pc[p] = "removeLoop" =>
                /\ Len(Lookups(p)) = idx[p] - 1
                /\ Len(Removals(p)) <= idx[p] - 1
          /\ pc[p] = "removeRequest" =>
                /\ Len(Lookups(p)) = idx[p]
                /\ Len(Removals(p)) <= idx[p] - 1

\* C39: under fair scheduling every ApplyACLRules and RemoveACLRules call
\* that is entered returns, and at every moment its host calls are one
\* ListEndpoints plus one install per endpoint passed (apply), or at most
\* one lookup and one removal per rule set passed (remove): no position of
\* a loop is visited twice.
C39_CallsTerminate ==
    /\ [](\A p \in Procs : CallWithinBudget(p))
    /\ \A p \in Procs : InCall(p) ~> pc[p] = "done"

\* Caller 2 has finished its loop over two endpoints and waits for the lock
\* that caller 1's remove holds.
C39_Witness ==
    /\ pc[2] = "applyLoop"
    /\ Len(endpoints[2]) = 2
    /\ idx[2] > Len(endpoints[2])
    /\ mu = 1
    /\ pc[1] = "removeLookup"

(***************************************************************************)
(* The priority counter over a whole conversion                            *)
(***************************************************************************)

\* The priorities of a list of rules increase strictly from each rule to the
\* next.
Increasing(rules) ==
    \A k \in 1..(Len(rules) - 1) : rules[k].Priority < rules[k + 1].Priority

\* C40: throughout a conversion the counter is 100 plus the number of rules
\* emitted so far (it never wraps modulo 2^16), so the last rule emitted
\* carries the highest priority so far and the priorities of the rules
\* emitted increase strictly: none is shared, none decreases.
C40_CounterNeverWraps ==
    out.pc # "idle" =>
        /\ out.priority = StartPriority + out.count
        /\ Increasing(out.rules)
        /\ Increasing(out.entryRules)
        /\ out.rules # <<>> =>
              out.rules[Len(out.rules)].Priority = StartPriority + out.count - 1

\* C40 in the code: a conversion returned more than 65536 rules, the counter
\* stands below 100 plus their number, and the last rule's priority q + 100,
\* with q below 65436, is the one the rule at 0-based position q received
\* before the counter wrapped: two rules share it.
C40_PriorityShared ==
    /\ Converted
    /\ out.count > 65536
    /\ out.priority < StartPriority + out.count
    /\ LET last == out.rules[Len(out.rules)].Priority IN
          /\ last >= StartPriority
          /\ last - StartPriority < 65536 - StartPriority
          /\ last - StartPriority < out.count - 1
          /\ last = (StartPriority + out.count - 1) % 65536

====
